---- MODULE Spec2Model ----
(***************************************************************************)
(* Zaman Bank front end: the AI chat controller (ai_chat.js), the confirm  *)
(* modal (ui.js), the speech adapter (speech.js) and the microphone pulse  *)
(* (animations.js), as a state machine of browser tasks.                   *)
(*                                                                         *)
(* One action is one task of the event loop: an event handler or a timer   *)
(* callback together with the promise continuations (microtasks) it makes  *)
(* runnable.  A handler is written as a function from the program state    *)
(* (a record with one field per program variable) to the program state,    *)
(* its statements composed in the order of the code.                       *)
(***************************************************************************)
EXTENDS Integers, Sequences, FiniteSets, TLC

VARIABLES
  inputValue,       \* messageInput.value
  container,        \* children of messagesContainer, in document order
  now,              \* the last value Date.now() returned
  nturns,           \* number of handleSendMessage activations that passed the guard
  turns,            \* per activation: where it is suspended, and its locals
  log,              \* per activation: the calls it has made, in order
  modal,            \* per activation: the confirm modal and its promise
  recognition,      \* speech.js `recognition`: "null" or "object"
  recState,         \* the platform's recognition session
  isListening,      \* speech.js `isListening`
  handlers,         \* whose closures recognition.onresult/onerror hold
  isSpeechEnabled,  \* speech.js `isSpeechEnabled`
  utterances,       \* speechSynthesis' queue: the utterance spoken, then those pending
  micClasses,       \* micButton.classList
  env,              \* the page: capabilities and location, fixed at load
  lastEvent,        \* the task that ran last and the callbacks it invoked
  storage,          \* localStorage: access_token, user_id, user_data
  api,              \* api.js module state: USE_MOCK, MOCK_DATA
  location,         \* window.location: the document loaded
  requests,         \* the promises of the HTTP client that are awaited or held
  page,             \* the document: the controllers' elements
  call,             \* a call of a pure function: its name and arguments
  returned,         \* what the call returned
  debounced         \* a function made by debounce: its closure, timers and clock

chatVars == <<inputValue, container, now, nturns, turns, log, modal, recognition,
              recState, isListening, handlers, isSpeechEnabled, utterances,
              micClasses, env>>

sessionVars == <<storage, api, location, requests, page>>

callVars == <<call, returned, debounced>>

vars == <<chatVars, lastEvent, sessionVars, callVars>>

----------------------------------------------------------------------------
(* Bounds and input domains *)

MaxTurns == 2

\* activations explored on a page with speech recognition
MaxVoiceTurns == 1

Turns == 1..MaxTurns

\* Texts are sequences of characters; " " is whitespace.
Inputs == { <<>>, <<" ">>, <<" ", "a", " ">> }

ReplyText == <<"reply">>

\* texts other callers of speech.speak pass
SpeakTexts == { <<"hello">> }

NoAction == [present |-> FALSE, title |-> "", description |-> ""]

\* one suggested action, with a description and without a title
SuggestedActions == { [present |-> TRUE, title |-> "", description |-> "D"] }

Responses == { [text |-> ReplyText, suggested_action |-> a] :
               a \in SuggestedActions \cup {NoAction} }

\* the handler's local `response` before the reply arrived
NoResponse == [text |-> <<>>, suggested_action |-> NoAction]

\* result.success as the server may send it
ExecResults == { "true", "false" }

\* if (result.success)
Truthy(v) == v = "true"

----------------------------------------------------------------------------
(* Fixed strings of the code *)

WelcomeText == <<"welcome">>
ApologyText == <<"apology">>
ExecOkText == <<"exec-ok">>
ExecFailedText == <<"exec-failed">>
ExecErrorText == <<"exec-error">>
DefaultTitle == "default-title"
DefaultDescription == "default-description"

\* a || b on strings
OrElse(a, b) == IF a = "" THEN b ELSE a

----------------------------------------------------------------------------
(* The program state as one record *)

St == [ inputValue |-> inputValue, container |-> container, now |-> now,
        nturns |-> nturns, turns |-> turns, log |-> log, modal |-> modal,
        recognition |-> recognition, recState |-> recState,
        isListening |-> isListening, handlers |-> handlers,
        isSpeechEnabled |-> isSpeechEnabled, utterances |-> utterances,
        micClasses |-> micClasses, env |-> env, lastEvent |-> lastEvent ]

Commit(s) ==
  /\ inputValue' = s.inputValue
  /\ container' = s.container
  /\ now' = s.now
  /\ nturns' = s.nturns
  /\ turns' = s.turns
  /\ log' = s.log
  /\ modal' = s.modal
  /\ recognition' = s.recognition
  /\ recState' = s.recState
  /\ isListening' = s.isListening
  /\ handlers' = s.handlers
  /\ isSpeechEnabled' = s.isSpeechEnabled
  /\ utterances' = s.utterances
  /\ micClasses' = s.micClasses
  /\ env' = s.env
  /\ lastEvent' = s.lastEvent
  /\ UNCHANGED <<sessionVars, callVars>>

\* lastEvent names the handler of the task when a property has to tell it
\* from the others ("task"), with the text submitted to it, and lists the
\* callbacks the task invoked
Event(op, text) == [op |-> op, text |-> text, cb |-> <<>>]

Begin(s, op) == [s EXCEPT !.lastEvent = Event(op, <<>>)]

BeginWith(s, op, text) == [s EXCEPT !.lastEvent = Event(op, text)]

Record(s, t, e) == [s EXCEPT !.log[t] = Append(@, e)]

----------------------------------------------------------------------------
(* The message container (DOM) *)

Element(id, className, content) ==
  [id |-> id, className |-> className, content |-> content]

TypingContent == <<"typing-indicator">>

IsIndicator(e) == e.content = TypingContent

NumIndicators(c) == Cardinality({ i \in 1..Len(c) : IsIndicator(c[i]) })

\* document.getElementById: the first element in document order, 0 if none
GetElementById(c, id) ==
  IF \E i \in 1..Len(c) : c[i].id = id
  THEN CHOOSE i \in 1..Len(c) :
         c[i].id = id /\ \A j \in 1..(i - 1) : c[j].id # id
  ELSE 0

RemoveAt(c, i) == SubSeq(c, 1, i - 1) \o SubSeq(c, i + 1, Len(c))

IsSpace(ch) == ch = " "

RECURSIVE TrimStart(_)
TrimStart(x) ==
  IF x # <<>> /\ IsSpace(Head(x)) THEN TrimStart(Tail(x)) ELSE x

RECURSIVE TrimEnd(_)
TrimEnd(x) ==
  IF x # <<>> /\ IsSpace(x[Len(x)])
  THEN TrimEnd(SubSeq(x, 1, Len(x) - 1))
  ELSE x

\* mutant of Trim: the input is used untrimmed
TrimNone(x) == x

\* String.prototype.trim
Trim(x) == TrimEnd(TrimStart(x))

----------------------------------------------------------------------------
(* ai_chat.js: addMessage, showTypingIndicator, removeTypingIndicator *)

addMessage(s, t, text, type) ==
  Record([s EXCEPT !.container =
            Append(@, Element(0, "message-" \o type, text))],
         t, <<"addMessage", type, text>>)

\* mutant of showTypingIndicator: no second element with an id in use
showTypingIndicatorOncePerId(s, t, d) ==
  Record([s EXCEPT !.now = d,
                   !.container =
                     IF GetElementById(@, d) # 0
                     THEN @
                     ELSE Append(@, Element(d, "message-assistant",
                                            TypingContent)),
                   !.turns[t].typingId = d],
         t, <<"showTypingIndicator", d>>)

\* Date.now() read as d; returns the state with s.turns[t].typingId = d
showTypingIndicator(s, t, d) ==
  Record([s EXCEPT !.now = d,
                   !.container =
                     Append(@, Element(d, "message-assistant", TypingContent)),
                   !.turns[t].typingId = d],
         t, <<"showTypingIndicator", d>>)

removeTypingIndicator(s, t, id) ==
  LET i == GetElementById(s.container, id)
  IN  Record(IF i # 0 THEN [s EXCEPT !.container = RemoveAt(@, i)] ELSE s,
             t, <<"removeTypingIndicator", id>>)

----------------------------------------------------------------------------
(* speech.js: speech output *)

getSpeechEnabled(s) == s.isSpeechEnabled

\* mutant of synthesisCancel: the queue is left as it is
synthesisCancelNothing(s) == s

\* speechSynthesis.cancel(): removes every utterance from the queue
synthesisCancel(s) == [s EXCEPT !.utterances = <<>>]

\* speechSynthesis.speak(u): appends u to the queue
synthesisSpeak(s, text) == [s EXCEPT !.utterances = Append(@, text)]

speak(s, text) ==
  IF ~s.isSpeechEnabled \/ ~s.env.synthesis
  THEN s
  ELSE synthesisSpeak(synthesisCancel(s), text)

stopSpeaking(s) == IF s.env.synthesis THEN synthesisCancel(s) ELSE s

\* mutant of setSpeechEnabled: only the flag is written
setSpeechEnabledFlagOnly(s, enabled) == [s EXCEPT !.isSpeechEnabled = enabled]

setSpeechEnabled(s, enabled) ==
  LET s1 == [s EXCEPT !.isSpeechEnabled = enabled]
  IN  IF ~enabled THEN stopSpeaking(s1) ELSE s1

----------------------------------------------------------------------------
(* ui.js: showToast, showConfirmModal, closeModal *)

showToast(s, t, type) == Record(s, t, <<"showToast", type>>)

\* the modal is appended to document.body; the promise is pending
showConfirmModal(s, t, title, message) ==
  Record([s EXCEPT !.modal[t] = [dom |-> "open", promise |-> "pending"]],
         t, <<"showConfirmModal", title, message>>)

\* classList.remove('active'); the element leaves the DOM 300 ms later
closeModal(s, t) == [s EXCEPT !.modal[t].dom = "closing"]

\* mutant of PromiseResolve: every call settles the promise anew
PromiseResolveAlways(p, v) == v

\* the resolve function of a promise: only the first call settles it
PromiseResolve(p, v) == IF p = "pending" THEN v ELSE p

resolve(s, t, v) == [s EXCEPT !.modal[t].promise = PromiseResolve(@, v)]

----------------------------------------------------------------------------
(* ai_chat.js: handleSendMessage and handleSuggestedAction, cut at their   *)
(* awaits                                                                   *)

Finish(s, t) == [s EXCEPT !.turns[t].pc = "done"]

\* lines 208-214: up to the await of the modal's promise
handleSuggestedAction(s, t, action) ==
  LET s1 == showConfirmModal(s, t,
                             OrElse(action.title, DefaultTitle),
                             OrElse(action.description, DefaultDescription))
  IN  [s1 EXCEPT !.turns[t].pc = "awaitConfirm"]

\* mutant of handleSuggestedActionConfirmed: executes whatever the answer
handleSuggestedActionAlwaysExecutes(s, t, confirmed) ==
  [Record(s, t, <<"executeAIAction">>) EXCEPT
     !.turns[t].pc = "awaitExec", !.turns[t].exec = "pending"]

\* lines 216-219 and 238: the modal's promise settled with `confirmed`
handleSuggestedActionConfirmed(s, t, confirmed) ==
  IF confirmed = "true"
  THEN [Record(s, t, <<"executeAIAction">>) EXCEPT
          !.turns[t].pc = "awaitExec", !.turns[t].exec = "pending"]
  ELSE Finish(s, t)

\* mutant of handleSuggestedActionResult: refreshes on every page
handleSuggestedActionResultAlwaysRefreshes(s0, t, v) ==
  LET s == [s0 EXCEPT !.turns[t].exec = v]
  IN
  IF Truthy(v)
  THEN LET s1 == showToast(s, t, "success")
           s2 == addMessage(s1, t, ExecOkText, "assistant")
           s3 == Record(s2, t, <<"dispatchEvent", "dashboard-refresh">>)
       IN  Finish(s3, t)
  ELSE LET s1 == showToast(s, t, "error")
           s2 == addMessage(s1, t, ExecFailedText, "assistant")
       IN  Finish(s2, t)

\* lines 221-232: the execute request resolved with result.success = v
handleSuggestedActionResult(s0, t, v) ==
  LET s == [s0 EXCEPT !.turns[t].exec = v]
  IN
  IF Truthy(v)
  THEN LET s1 == showToast(s, t, "success")
           s2 == addMessage(s1, t, ExecOkText, "assistant")
           s3 == IF s2.env.dashboard
                 THEN Record(s2, t, <<"dispatchEvent", "dashboard-refresh">>)
                 ELSE s2
       IN  Finish(s3, t)
  ELSE LET s1 == showToast(s, t, "error")
           s2 == addMessage(s1, t, ExecFailedText, "assistant")
       IN  Finish(s2, t)

\* lines 233-237: the execute request rejected
handleSuggestedActionError(s0, t) ==
  LET s == [s0 EXCEPT !.turns[t].exec = "rejected"]
      s1 == showToast(s, t, "error")
      s2 == addMessage(s1, t, ExecErrorText, "assistant")
  IN  Finish(s2, t)

\* lines 79-95: up to the await of the reply; d is what Date.now() returns
handleSendMessage(s, d) ==
  LET message == Trim(s.inputValue)
      t == s.nturns + 1
  IN  IF message = <<>>
      THEN s
      ELSE LET s1 == [s EXCEPT !.inputValue = <<>>, !.nturns = t]
               s2 == addMessage(s1, t, message, "user")
               s3 == showTypingIndicator(s2, t, d)
               s4 == Record(s3, t, <<"sendAIMessage", message>>)
           IN  [s4 EXCEPT !.turns[t].pc = "awaitReply",
                          !.turns[t].reply = "pending"]

\* mutant of handleSendMessageReply: the typing indicator stays
handleSendMessageReplyKeepsIndicator(s0, t, response) ==
  LET s == [s0 EXCEPT !.turns[t].reply = "fulfilled",
                      !.turns[t].response = response]
      s2 == addMessage(s, t, response.text, "assistant")
      s3 == IF getSpeechEnabled(s2)
            THEN Record(speak(s2, response.text), t, <<"speak", response.text>>)
            ELSE s2
  IN  IF response.suggested_action.present
      THEN handleSuggestedAction(s3, t, response.suggested_action)
      ELSE Finish(s3, t)

\* mutant of handleSendMessageReply: the dialog is presented before the
\* text is spoken
handleSendMessageReplyDialogFirst(s0, t, response) ==
  LET s == [s0 EXCEPT !.turns[t].reply = "fulfilled",
                      !.turns[t].response = response]
      s1 == removeTypingIndicator(s, t, s.turns[t].typingId)
      s2 == addMessage(s1, t, response.text, "assistant")
      s3 == IF response.suggested_action.present
            THEN handleSuggestedAction(s2, t, response.suggested_action)
            ELSE Finish(s2, t)
  IN  IF getSpeechEnabled(s3)
      THEN Record(speak(s3, response.text), t, <<"speak", response.text>>)
      ELSE s3

\* lines 97-111: the reply request resolved with `response`
handleSendMessageReply(s0, t, response) ==
  LET s == [s0 EXCEPT !.turns[t].reply = "fulfilled",
                      !.turns[t].response = response]
      s1 == removeTypingIndicator(s, t, s.turns[t].typingId)
      s2 == addMessage(s1, t, response.text, "assistant")
      s3 == IF getSpeechEnabled(s2)
            THEN Record(speak(s2, response.text), t, <<"speak", response.text>>)
            ELSE s2
  IN  IF response.suggested_action.present
      THEN handleSuggestedAction(s3, t, response.suggested_action)
      ELSE Finish(s3, t)

\* lines 113-117, entered by an exception thrown in the try block after the
\* reply arrived
handleSendMessageCatch(s, t) ==
  LET s1 == removeTypingIndicator(s, t, s.turns[t].typingId)
      s2 == addMessage(s1, t, ApologyText, "assistant")
  IN  Finish(s2, t)

\* lines 97-117: the reply request resolved with `response` and the call
\* `at` of the try block throws: speech.speak (line 105, when speech output
\* is enabled and the platform has a synthesis), or handleSuggestedAction's
\* ui.showConfirmModal (line 110, when the reply suggests an action)
handleSendMessageReplyThrows(s0, t, response, at) ==
  LET s == [s0 EXCEPT !.turns[t].reply = "fulfilled",
                      !.turns[t].response = response]
      s1 == removeTypingIndicator(s, t, s.turns[t].typingId)
      s2 == addMessage(s1, t, response.text, "assistant")
  IN  IF at = "speak"
      THEN handleSendMessageCatch(Record(s2, t, <<"speak", response.text>>), t)
      ELSE LET s3 == IF getSpeechEnabled(s2)
                     THEN Record(speak(s2, response.text), t,
                                 <<"speak", response.text>>)
                     ELSE s2
           IN  handleSendMessageCatch(s3, t)

\* mutant of handleSendMessageError: the typing indicator stays
handleSendMessageErrorKeepsIndicator(s0, t) ==
  LET s == [s0 EXCEPT !.turns[t].reply = "rejected"]
      s2 == addMessage(s, t, ApologyText, "assistant")
  IN  Finish(s2, t)

\* lines 113-117: the reply request rejected
handleSendMessageError(s0, t) ==
  LET s == [s0 EXCEPT !.turns[t].reply = "rejected"]
      s1 == removeTypingIndicator(s, t, s.turns[t].typingId)
      s2 == addMessage(s1, t, ApologyText, "assistant")
  IN  Finish(s2, t)

----------------------------------------------------------------------------
(* speech.js: recognition.  recState is the platform's session:            *)
(* "inactive", "running" (started), "stopping" (stop() called) and         *)
(* "ending" (its result or error was delivered, its end event is due).     *)

Invoke(s, name) == [s EXCEPT !.lastEvent.cb = Append(@, name)]

toggleMicPulse(s, active) ==
  IF active
  THEN [s EXCEPT !.micClasses = @ \cup {"mic-active"}]
  ELSE [s EXCEPT !.micClasses = @ \ {"mic-active"}]

\* the onResult closure: handleMicClick's (lines 130-135), or a direct
\* caller's, which only observes the call
onResult(s, caller, transcript, d) ==
  LET s0 == Invoke(s, "onResult")
  IN  IF caller = "mic"
      THEN LET s1 == [s0 EXCEPT !.inputValue = transcript]
               s2 == toggleMicPulse(s1, FALSE)
               s3 == [s2 EXCEPT !.micClasses = @ \ {"listening"}]
           IN  handleSendMessage(s3, d)
      ELSE s0

\* the onError closure: handleMicClick's (lines 136-141), or a direct caller's
onError(s, caller) ==
  LET s0 == Invoke(s, "onError")
  IN  IF caller = "mic"
      THEN LET s1 == toggleMicPulse(s0, FALSE)
               s2 == [s1 EXCEPT !.micClasses = @ \ {"listening"}]
           IN  Invoke(s2, "showToast")
      ELSE s0

isSupported(s) == s.env.supported

\* speech.init(): returns the state; recognition stays "null" when it fails
init(s) == IF isSupported(s) THEN [s EXCEPT !.recognition = "object"] ELSE s

\* recognition.start() throws InvalidStateError unless the session is inactive
StartThrows(s) == s.recState # "inactive"

\* mutant of startListening: no guard against a session that is listening
startListeningUnguarded(s, caller) ==
  LET s1 == IF s.recognition = "null" THEN init(s) ELSE s
  IN  IF s1.recognition = "null"
      THEN onError(s1, caller)
      ELSE LET s2 == [s1 EXCEPT !.isListening = TRUE, !.handlers = caller]
           IN  IF StartThrows(s2)
               THEN onError([s2 EXCEPT !.isListening = FALSE], caller)
               ELSE [s2 EXCEPT !.recState = "running"]

startListening(s, caller) ==
  LET s1 == IF s.recognition = "null" THEN init(s) ELSE s
  IN  IF s1.recognition = "null"
      THEN onError(s1, caller)
      ELSE IF s1.isListening
      THEN s1
      ELSE LET s2 == [s1 EXCEPT !.isListening = TRUE, !.handlers = caller]
           IN  IF StartThrows(s2)
               THEN onError([s2 EXCEPT !.isListening = FALSE], caller)
               ELSE [s2 EXCEPT !.recState = "running"]

\* recognition.stop(): a running session starts to stop
recognitionStop(s) ==
  IF s.recState = "running" THEN [s EXCEPT !.recState = "stopping"] ELSE s

stopListening(s) ==
  IF s.recognition # "null" /\ s.isListening
  THEN [recognitionStop(s) EXCEPT !.isListening = FALSE]
  ELSE s

getIsListening(s) == s.isListening

\* recognition.onresult (lines 58-63)
recognitionOnResult(s, transcript, d) == onResult(s, s.handlers, transcript, d)

\* recognition.onerror (lines 65-71)
recognitionOnError(s) == onError([s EXCEPT !.isListening = FALSE], s.handlers)

\* mutant of recognitionOnEnd: the end of the session is ignored
recognitionOnEndIgnored(s) == s

\* recognition.onend (lines 73-75)
recognitionOnEnd(s) == [s EXCEPT !.isListening = FALSE]

\* ai_chat.js handleMicClick
handleMicClick(s) ==
  IF getIsListening(s)
  THEN LET s1 == stopListening(s)
           s2 == toggleMicPulse(s1, FALSE)
       IN  [s2 EXCEPT !.micClasses = @ \ {"listening"}]
  ELSE LET s1 == startListening(s, "mic")
           s2 == toggleMicPulse(s1, TRUE)
       IN  [s2 EXCEPT !.micClasses = @ \cup {"listening"}]

----------------------------------------------------------------------------
(* validator.js.  A field value is a string, a sequence of characters.     *)

IsDigit(ch) == ch \in { "0", "1", "2", "3", "4", "5", "6", "7", "8", "9" }

DigitValue(ch) == CHOOSE d \in 0..9 : ToString(d) = ch

\* the number of leading decimal digits of x
RECURSIVE LeadingDigits(_)
LeadingDigits(x) ==
  IF x # <<>> /\ IsDigit(Head(x)) THEN 1 + LeadingDigits(Tail(x)) ELSE 0

\* the number a sequence of digits denotes
RECURSIVE DigitsValue(_)
DigitsValue(ds) ==
  IF ds = <<>>
  THEN 0
  ELSE 10 * DigitsValue(SubSeq(ds, 1, Len(ds) - 1)) + DigitValue(ds[Len(ds)])

RECURSIVE Pow10(_)
Pow10(n) == IF n = 0 THEN 1 ELSE 10 * Pow10(n - 1)

\* a number is num/den with den a power of ten; NaN has nan = TRUE
NaN == [nan |-> TRUE, num |-> 0, den |-> 1]

Number(num, den) == [nan |-> FALSE, num |-> num, den |-> den]

\* parseFloat on a string: leading white space is skipped, then the
\* longest prefix that is a decimal numeral (sign, digits, fraction) is
\* read and whatever follows it is ignored; NaN when no digit is read
parseFloat(value) ==
  LET s == TrimStart(value)
      neg == s # <<>> /\ Head(s) = "-"
      body == IF neg THEN Tail(s) ELSE s
      ni == LeadingDigits(body)
      rest == SubSeq(body, ni + 1, Len(body))
      dot == rest # <<>> /\ Head(rest) = "."
      nf == IF dot THEN LeadingDigits(Tail(rest)) ELSE 0
      digits == SubSeq(body, 1, ni)
                \o (IF dot THEN SubSeq(rest, 2, nf + 1) ELSE <<>>)
  IN  IF ni + nf = 0
      THEN NaN
      ELSE Number((IF neg THEN 0 - 1 ELSE 1) * DigitsValue(digits), Pow10(nf))

\* num < m and num > m for a number and an integer bound
LessThan(x, m) == x.num < m * x.den

GreaterThan(x, m) == x.num > m * x.den

Ok == [ok |-> TRUE, message |-> ""]

Failed(message) == [ok |-> FALSE, message |-> message]

\* mutant of validateNumber: the upper bound is not tested
validateNumberNoMax(value, min, max) ==
  LET num == parseFloat(value)
  IN  IF num.nan
      THEN Failed("not-a-number")
      ELSE IF min # <<>> /\ LessThan(num, min[1])
      THEN Failed("below-min")
      ELSE Ok

\* min and max are null (<<>>) or a number (<<m>>)
validateNumber(value, min, max) ==
  LET num == parseFloat(value)
  IN  IF num.nan
      THEN Failed("not-a-number")
      ELSE IF min # <<>> /\ LessThan(num, min[1])
      THEN Failed("below-min")
      ELSE IF max # <<>> /\ GreaterThan(num, max[1])
      THEN Failed("above-max")
      ELSE Ok

validateRequired(value, fieldName) ==
  IF value = <<>> \/ Trim(value) = <<>>
  THEN Failed(fieldName \o "-required")
  ELSE Ok

\* the strings new Date(dateString) gives a valid date for
DateStrings == { <<"2", "0", "3", "0">> }

validateDate(dateString) ==
  IF dateString = <<>>
  THEN Failed("date-required")
  ELSE IF dateString \notin DateStrings
  THEN Failed("date-invalid")
  ELSE Ok

\* the validators of a rule: closures over the functions above
Required(fieldName) ==
  [fn |-> "validateRequired", fieldName |-> fieldName, min |-> <<>>, max |-> <<>>]

InRange(min, max) ==
  [fn |-> "validateNumber", fieldName |-> "", min |-> min, max |-> max]

IsDate == [fn |-> "validateDate", fieldName |-> "", min |-> <<>>, max |-> <<>>]

\* validator(input.value)
RunValidator(v, value) ==
  IF v.fn = "validateRequired" THEN validateRequired(value, v.fieldName)
  ELSE IF v.fn = "validateNumber" THEN validateNumber(value, v.min, v.max)
  ELSE validateDate(value)

\* A form: `inputs` maps the names of form.elements to the input's value,
\* its class `error` and its parent element; `errors` maps a parent
\* element to the text of its .form-error span, null (<<>>) when it has none.
showError(form, f, message) ==
  [form EXCEPT !.inputs[f].error = TRUE,
               !.errors[form.inputs[f].parent] = << message >>]

clearError(form, f) ==
  [form EXCEPT !.inputs[f].error = FALSE,
               !.errors[form.inputs[f].parent] = <<>>]

\* lines 148-156: the validators of one field from the k-th on; r is
\* [form, isValid, calls], calls listing the validators invoked
RECURSIVE RunChain(_, _, _, _)
RunChain(r, f, validators, k) ==
  IF k > Len(validators)
  THEN r
  ELSE LET result == RunValidator(validators[k], r.form.inputs[f].value)
           r1 == [r EXCEPT !.calls = Append(@, <<f, k>>)]
       IN  IF ~result.ok
           THEN [r1 EXCEPT !.form = showError(@, f, result.message),
                           !.isValid = FALSE]
           ELSE RunChain(r1, f, validators, k + 1)

\* the loop of validateForm ending at the first failing field
RECURSIVE ValidateFieldsUntilFailure(_, _, _)
ValidateFieldsUntilFailure(r, rules, j) ==
  IF j > Len(rules) \/ ~r.isValid
  THEN r
  ELSE LET f == rules[j][1]
       IN  IF f \notin DOMAIN r.form.inputs
           THEN ValidateFieldsUntilFailure(r, rules, j + 1)
           ELSE ValidateFieldsUntilFailure(
                  RunChain([r EXCEPT !.form = clearError(@, f)],
                           f, rules[j][2], 1),
                  rules, j + 1)

\* lines 141-157: the entries of `rules` from the j-th on
RECURSIVE ValidateFields(_, _, _)
ValidateFields(r, rules, j) ==
  IF j > Len(rules)
  THEN r
  ELSE LET f == rules[j][1]
       IN  IF f \notin DOMAIN r.form.inputs
           THEN ValidateFields(r, rules, j + 1)
           ELSE ValidateFields(
                  RunChain([r EXCEPT !.form = clearError(@, f)],
                           f, rules[j][2], 1),
                  rules, j + 1)

\* mutant of validateForm: no field after the first failing one is validated
validateFormUntilFailure(form, rules) ==
  ValidateFieldsUntilFailure([form |-> form, isValid |-> TRUE, calls |-> <<>>],
                             rules, 1)

\* rules is the sequence of the entries <<fieldName, validators>> of the
\* rules object, in the order of Object.entries
validateForm(form, rules) ==
  ValidateFields([form |-> form, isValid |-> TRUE, calls |-> <<>>], rules, 1)

\* A JavaScript number that is an integer, NaN, Infinity or -Infinity
Finite(n) == [kind |-> "finite", n |-> n]

NotANumber == [kind |-> "NaN", n |-> 0]

Infinite(sign) == [kind |-> "Infinity", n |-> sign]

\* the integer floor of a / b, b # 0
Floor(a, b) == IF b > 0 THEN a \div b ELSE (0 - a) \div (0 - b)

\* Math.round((current / total) * 100) for integers current and total:
\* 0 / 0 is NaN, x / 0 is Infinity with the sign of x, and Math.round(x) is
\* the floor of x + 1/2
MathRoundPercent(current, total) ==
  IF total = 0
  THEN IF current = 0
       THEN NotANumber
       ELSE Infinite(IF current > 0 THEN 1 ELSE 0 - 1)
  ELSE Finite(Floor(200 * current + total, 2 * total))

\* Math.min(x, m) for an integer m
MathMin(x, m) ==
  IF x.kind = "NaN" THEN x
  ELSE IF x.kind = "Infinity" THEN IF x.n > 0 THEN Finite(m) ELSE x
  ELSE IF x.n < m THEN x ELSE Finite(m)

\* auth.js (utils) calculatePercentage, lines 285-288
calculatePercentage(current, total) ==
  IF total = 0 THEN Finite(0) ELSE MathMin(MathRoundPercent(current, total), 100)

\* dashboard.js renderGoalCard, line 98: const progress
progress(goal) ==
  MathMin(MathRoundPercent(goal.current_amount, goal.target_amount), 100)

----------------------------------------------------------------------------
(* auth.js: the session store (lines 29-49, localStorage) and the HTTP     *)
(* client (lines 348-657).  A document's state is a record, as the chat's. *)

Pg == [ storage |-> storage, api |-> api, location |-> location,
        requests |-> requests, page |-> page, lastEvent |-> lastEvent ]

CommitPg(p) ==
  /\ storage' = p.storage
  /\ api' = p.api
  /\ location' = p.location
  /\ requests' = p.requests
  /\ page' = p.page
  /\ lastEvent' = p.lastEvent
  /\ UNCHANGED <<chatVars, callVars>>

\* localStorage.getItem returns null (<<>>) or the stored string (<<v>>)
Null == <<>>

getItem(p, key) == p.storage[key]

setItem(p, key, v) == [p EXCEPT !.storage[key] = << v >>]

removeItem(p, key) == [p EXCEPT !.storage[key] = Null]

\* an item as a condition: null and the empty string are falsy
TruthyItem(x) == x # Null /\ x[1] # ""

isLoggedIn(p) == TruthyItem(getItem(p, "access_token"))

HeaderNames == { "Content-Type", "Authorization" }

\* mutant of authHeaders: the stored token is sent as it is
authHeadersBareToken(p) ==
  LET token == getItem(p, "access_token")
  IN  [h \in HeaderNames |->
         IF h = "Authorization"
         THEN IF TruthyItem(token) THEN token[1] ELSE ""
         ELSE "application/json"]

authHeaders(p) ==
  LET token == getItem(p, "access_token")
  IN  [h \in HeaderNames |->
         IF h = "Authorization"
         THEN IF TruthyItem(token) THEN "Bearer " \o token[1] ELSE ""
         ELSE "application/json"]

\* a mock request is not sent: it has no headers
NoHeaders == [h \in {} |-> ""]

\* the delay of the mock promises' timers (lines 608 and 655)
MockDelay == 500

\* a request path is the sequence of its segments; String.includes is
\* the test for a contiguous part
Includes(path, key) ==
  \E i \in 0..(Len(path) - Len(key)) : SubSeq(path, i + 1, i + Len(key)) = key

\* a request body: undefined, or an object, with or without a string
\* property `message`
NoBody == [defined |-> FALSE, message |-> Null]

Body(message) == [defined |-> TRUE, message |-> message]

\* a user record of a response
NoUser == [id |-> 0, name |-> ""]

\* what a request resolves to: the fixture or the parsed response
Value(kind) ==
  [kind |-> kind, user_id |-> 0, access_token |-> "", user |-> NoUser, n |-> 0]

NoValue == Value("none")

\* MOCK_DATA.user and MOCK_DATA.token
MockUser == [id |-> 1, name |-> "John Doe"]

MockToken == "mock_jwt_token_12345"

\* a promise with a request behind it: `owner` is the code that awaits it,
\* `ctx` the locals that code keeps
NewRequest(method, path, body, mock, headers, owner, ctx) ==
  [ method |-> method, path |-> path, body |-> body, mock |-> mock,
    headers |-> headers, owner |-> owner, ctx |-> ctx,
    delay |-> IF mock THEN MockDelay ELSE 0,
    status |-> "pending", value |-> NoValue ]

\* fetch(url, options): the request is sent
fetch(p, method, path, headers, body, owner, ctx) ==
  [p EXCEPT !.requests =
     Append(@, NewRequest(method, path, body, FALSE, headers, owner, ctx))]

\* mockGet (lines 596-598): the promise and its timer
mockGet(p, path, owner, ctx) ==
  [p EXCEPT !.requests =
     Append(@, NewRequest("GET", path, NoBody, TRUE, NoHeaders, owner, ctx))]

\* mockPost (lines 612-614): the promise and its timer
mockPost(p, path, body, owner, ctx) ==
  [p EXCEPT !.requests =
     Append(@, NewRequest("POST", path, body, TRUE, NoHeaders, owner, ctx))]

get(p, path, owner, ctx) ==
  IF p.api.useMock
  THEN mockGet(p, path, owner, ctx)
  ELSE fetch(p, "GET", path, authHeaders(p), NoBody, owner, ctx)

post(p, path, body, owner, ctx) ==
  IF p.api.useMock
  THEN mockPost(p, path, body, owner, ctx)
  ELSE fetch(p, "POST", path, authHeaders(p), body, owner, ctx)

setMockMode(p, useMock) == [p EXCEPT !.api.useMock = useMock]

\* the timer callback of mockGet (lines 599-607): the value it resolves with
mockGetTimer(p, path) ==
  IF Includes(path, <<"/goals">>)
  THEN [Value("goals") EXCEPT !.n = p.api.goals]
  ELSE IF Includes(path, <<"/transactions">>)
  THEN [Value("transactions") EXCEPT !.n = 5]
  ELSE IF Includes(path, <<"/admin", "/logs">>)
  THEN [Value("logs") EXCEPT !.n = 3]
  ELSE Value("mock-get")

\* body.message.toLowerCase() throws a TypeError when body is undefined or
\* has no string `message`
MessageThrows(body) == ~body.defined \/ body.message = Null

\* the timer callback of mockPost (lines 615-654): whether it throws before
\* it resolves, the value it resolves with, and MOCK_DATA afterwards
mockPostTimer(p, path, body) ==
  IF Includes(path, <<"/auth", "/login">>)
  THEN [throws |-> FALSE, api |-> p.api,
        value |-> [Value("login") EXCEPT !.user_id = MockUser.id,
                                         !.access_token = MockToken,
                                         !.user = MockUser]]
  ELSE IF Includes(path, <<"/auth", "/register">>)
  THEN [throws |-> FALSE, api |-> p.api,
        value |-> [Value("register") EXCEPT !.user_id = MockUser.id,
                                            !.access_token = MockToken]]
  ELSE IF Includes(path, <<"/ai", "/message">>)
  THEN [throws |-> MessageThrows(body), api |-> p.api,
        value |-> Value("ai-response")]
  ELSE IF Includes(path, <<"/ai", "/execute">>)
  THEN [throws |-> FALSE, api |-> p.api, value |-> Value("executed")]
  ELSE IF Includes(path, <<"/goals">>)
  THEN [throws |-> FALSE,
        api |-> [p.api EXCEPT !.goals = @ + 1],
        value |-> [Value("goal") EXCEPT !.n = p.api.goals + 1]]
  ELSE [throws |-> FALSE, api |-> p.api, value |-> Value("mock-post")]

\* the promise of request i settles; a settled promise stays as it is
settle(p, i, status, value) ==
  IF p.requests[i].status = "pending"
  THEN [p EXCEPT !.requests[i].status = status, !.requests[i].value = value]
  ELSE p

\* the timer of mock request i fires: "stuck" is a promise whose timer
\* callback threw, which nothing will settle any more
mockTimer(p, i) ==
  LET r == p.requests[i]
  IN  IF r.method = "GET"
      THEN settle(p, i, "fulfilled", mockGetTimer(p, r.path))
      ELSE LET o == mockPostTimer(p, r.path, r.body)
           IN  IF o.throws
               THEN [p EXCEPT !.requests[i].status = "stuck"]
               ELSE settle([p EXCEPT !.api = o.api], i, "fulfilled", o.value)

----------------------------------------------------------------------------
(* auth.js (lines 29-151), dashboard.js and admin.js: the controllers of   *)
(* the pages, cut at their awaits                                          *)

UserIds == { 1, 2 }

User(u) == [id |-> u, name |-> "user-" \o ToString(u)]

Token(u) == "token-" \o ToString(u)

Users == { User(u) : u \in UserIds } \cup { MockUser }

JSONstringify(user) == "{id:" \o ToString(user.id) \o ",name:" \o user.name \o "}"

\* JSON.parse of a string JSON.stringify made
JSONparse(text) == CHOOSE user \in Users : JSONstringify(user) = text

\* parseInt of the decimal numeral of a user id
parseInt(text) == CHOOSE n \in 0..9 : ToString(n) = text

\* null is <<>>
getCurrentUserId(p) ==
  LET userId == getItem(p, "user_id")
  IN  IF TruthyItem(userId) THEN << parseInt(userId[1]) >> ELSE Null

getCurrentUser(p) ==
  LET userData == getItem(p, "user_data")
  IN  IF TruthyItem(userData) THEN << JSONparse(userData[1]) >> ELSE Null

\* ui.showToast, observed as a callback of the task
toast(p, type) == Invoke(p, "showToast-" \o type)

\* window.location.href = url: the document is left when the task is over
\* (or, from a timer, 1000 ms later)
navigate(p, url) == [p EXCEPT !.page.redirect = url]

NoCtx == [by |-> "", userId |-> Null, filters |-> ""]

login(p, owner) == post(p, <<"/auth", "/login">>, Body(Null), owner, NoCtx)

register(p, owner) == post(p, <<"/auth", "/register">>, Body(Null), owner, NoCtx)

\* `/users/${userId}`: null prints as "null"
UserPath(userId) ==
  <<"/users", IF userId = Null THEN "/null" ELSE "/" \o ToString(userId[1])>>

getUserGoals(p, userId, ctx) ==
  get(p, UserPath(userId) \o <<"/goals">>, "loadGoals", ctx)

createGoal(p, userId, ctx) ==
  post(p, UserPath(userId) \o <<"/goals">>, Body(Null), "handleCreateGoal", ctx)

getUserTransactions(p, userId, ctx) ==
  get(p, UserPath(userId) \o <<"/transactions">>, "loadTransactions", ctx)

\* the query string is "" or one more segment of the path
getAdminLogs(p, filters, ctx) ==
  get(p, <<"/admin", "/logs">> \o (IF filters = "" THEN <<>> ELSE << "?" \o filters >>),
      "loadLogs", ctx)

\* admin.js logsData: n logs, the answer to a request for `query`
Logs(n, query) == [n |-> n, query |-> query]

\* auth.js handleLogin, lines 55-68
handleLogin(p) == login([p EXCEPT !.page.submitBtn = "disabled"], "handleLogin")

\* lines 70-83
handleLoginResolved(p, response) ==
  LET p1 == setItem(p, "access_token", response.access_token)
      p2 == setItem(p1, "user_id", ToString(response.user_id))
      p3 == IF response.user # NoUser
            THEN setItem(p2, "user_data", JSONstringify(response.user))
            ELSE p2
  IN  navigate(toast(p3, "success"), "dashboard.html")

\* mutant of handleLoginRejected: the failed login clears the session
handleLoginRejectedClearsSession(p) ==
  LET p1 == removeItem(p, "access_token")
  IN  [toast(p1, "error") EXCEPT !.page.submitBtn = "enabled"]

\* lines 85-90
handleLoginRejected(p) ==
  [toast(p, "error") EXCEPT !.page.submitBtn = "enabled"]

\* auth.js handleRegister, lines 97-117
handleRegister(p, password, confirmPassword) ==
  IF password # confirmPassword
  THEN toast(p, "error")
  ELSE register([p EXCEPT !.page.submitBtn = "disabled"], "handleRegister")

\* lines 119-128
handleRegisterResolved(p, response) ==
  LET p1 == setItem(p, "access_token", response.access_token)
      p2 == setItem(p1, "user_id", ToString(response.user_id))
  IN  navigate(toast(p2, "success"), "dashboard.html")

\* lines 130-135
handleRegisterRejected(p) ==
  [toast(p, "error") EXCEPT !.page.submitBtn = "enabled"]

logout(p) ==
  LET p1 == removeItem(p, "access_token")
      p2 == removeItem(p1, "user_id")
      p3 == removeItem(p2, "user_data")
  IN  navigate(toast(p3, "info"), "index.html")

\* dashboard.js loadGoals, lines 61-69
loadGoals(p, userId, by) ==
  getUserGoals([p EXCEPT !.page.goals = "loading"], userId,
               [NoCtx EXCEPT !.by = by, !.userId = userId])

\* dashboard.js loadTransactions, lines 132-138
loadTransactions(p, userId, by) ==
  getUserTransactions(p, userId, [NoCtx EXCEPT !.by = by, !.userId = userId])

\* dashboard.js init, lines 20-27, and admin.js init, lines 18-28: the
\* listeners are added when the first load is over
listen(p, by) == IF by = "init" THEN [p EXCEPT !.page.ready = TRUE] ELSE p

\* dashboard.js loadDashboard, lines 33-43, called by init ("init") or by
\* the dashboard-refresh listener or refresh() ("refresh")
loadDashboard(p, by) ==
  LET userId == getCurrentUserId(p)
  IN  IF userId = Null \/ userId[1] = 0
      THEN listen(navigate(p, "login.html"), by)
      ELSE loadGoals(p, userId, by)

\* what follows `await loadGoals(userId)` in its caller: loadDashboard
\* lines 45-46, handleCreateGoal lines 230-235 and 240-243
afterLoadGoals(p, ctx) ==
  IF ctx.by = "handleCreateGoal"
  THEN [p EXCEPT !.page.submitBtn = "enabled"]
  ELSE loadTransactions(p, ctx.userId, ctx.by)

\* loadGoals, lines 71-84
loadGoalsResolved(p, goalsData, ctx) ==
  afterLoadGoals(
    [p EXCEPT !.page.goals = IF goalsData.n = 0 THEN "empty" ELSE "cards"],
    ctx)

\* loadGoals, lines 86-89
loadGoalsRejected(p, ctx) ==
  afterLoadGoals([p EXCEPT !.page.goals = "error"], ctx)

\* dashboard.js updateBalance
updateBalance(p) ==
  LET user == getCurrentUser(p)
  IN  IF user # Null THEN Invoke(p, "updateBalance") ELSE p

\* loadTransactions, lines 140-172, then loadDashboard line 49
loadTransactionsResolved(p, transactionsData, ctx) ==
  listen(updateBalance(
           [p EXCEPT !.page.transactions =
              IF transactionsData.n = 0 THEN "empty" ELSE "table"]),
         ctx.by)

\* loadTransactions, lines 174-176 (the error is logged to the console),
\* then loadDashboard line 49
loadTransactionsRejected(p, ctx) == listen(updateBalance(p), ctx.by)

\* the rules of handleCreateGoal, lines 204-208
GoalRules ==
  << <<"goal_title", << Required("goal-title") >> >>,
     <<"target_amount", << InRange(<<1000>>, <<>>) >> >>,
     <<"deadline", << IsDate >> >> >>

\* dashboard.js handleCreateGoal, lines 195-222; the form is page.form
handleCreateGoal(p) ==
  LET r == validateForm(p.page.form, GoalRules)
      p1 == [p EXCEPT !.page.form = r.form]
  IN  IF ~r.isValid
      THEN p1
      ELSE LET userId == getCurrentUserId(p1)
           IN  createGoal([p1 EXCEPT !.page.submitBtn = "disabled"], userId,
                          [NoCtx EXCEPT !.userId = userId])

\* form.reset(): the inputs get their default values
formReset(form) ==
  [form EXCEPT !.inputs = [f \in DOMAIN @ |-> [@[f] EXCEPT !.value = <<>>]]]

\* lines 224-228
handleCreateGoalResolved(p, ctx) ==
  LET p1 == toast(p, "success")
      p2 == [p1 EXCEPT !.page.form = formReset(@)]
  IN  loadGoals(p2, ctx.userId, "handleCreateGoal")

\* mutant of handleCreateGoalRejected: no finally block
handleCreateGoalRejectedNoFinally(p) == toast(p, "error")

\* lines 237-243
handleCreateGoalRejected(p) ==
  [toast(p, "error") EXCEPT !.page.submitBtn = "enabled"]

\* admin.js loadLogs, lines 35-43
loadLogs(p, filters, by) ==
  getAdminLogs([p EXCEPT !.page.logs = "loading"], filters,
               [NoCtx EXCEPT !.by = by, !.filters = filters])

\* lines 43-55: logsData is the response to the request made with
\* ctx.filters
loadLogsResolved(p, logsData, ctx) ==
  listen([p EXCEPT !.page.logsData = Logs(logsData.n, ctx.filters),
                   !.page.logs = IF logsData.n = 0 THEN "empty" ELSE "table"],
         ctx.by)

\* lines 57-61
loadLogsRejected(p, ctx) ==
  listen(toast([p EXCEPT !.page.logs = "error"], "error"), ctx.by)

\* admin.js handleFilterSubmit
handleFilterSubmit(p, filters) ==
  loadLogs([p EXCEPT !.page.currentFilters = filters], filters, "handleFilterSubmit")

\* admin.js handleClearFilters
handleClearFilters(p) ==
  loadLogs([p EXCEPT !.page.currentFilters = ""], "", "handleClearFilters")

\* the code that awaits request i resumes, the request having settled
Resume(p, i) ==
  LET r == p.requests[i]
      ok == r.status = "fulfilled"
  IN  IF r.owner = "handleLogin"
      THEN IF ok THEN handleLoginResolved(p, r.value) ELSE handleLoginRejected(p)
      ELSE IF r.owner = "handleRegister"
      THEN IF ok THEN handleRegisterResolved(p, r.value)
                 ELSE handleRegisterRejected(p)
      ELSE IF r.owner = "loadGoals"
      THEN IF ok THEN loadGoalsResolved(p, r.value, r.ctx)
                 ELSE loadGoalsRejected(p, r.ctx)
      ELSE IF r.owner = "loadTransactions"
      THEN IF ok THEN loadTransactionsResolved(p, r.value, r.ctx)
                 ELSE loadTransactionsRejected(p, r.ctx)
      ELSE IF r.owner = "handleCreateGoal"
      THEN IF ok THEN handleCreateGoalResolved(p, r.ctx)
                 ELSE handleCreateGoalRejected(p)
      ELSE IF r.owner = "loadLogs"
      THEN IF ok THEN loadLogsResolved(p, r.value, r.ctx)
                 ELSE loadLogsRejected(p, r.ctx)
      ELSE p

----------------------------------------------------------------------------
(* Documents                                                               *)

Pages == { "index.html", "login.html", "register.html", "dashboard.html",
           "admin_panel.html" }

\* api.js as loaded: USE_MOCK and MOCK_DATA.goals.length
NewApi == [useMock |-> FALSE, goals |-> 3]

NoStorage == [access_token |-> Null, user_id |-> Null, user_data |-> Null]

\* the create-goal form, every input in a form group of its own
GoalFields == { "goal_title", "target_amount", "deadline" }

NewForm ==
  [ inputs |-> [f \in GoalFields |->
                  [value |-> <<>>, error |-> FALSE, parent |-> f]],
    errors |-> [g \in GoalFields |-> <<>>] ]

\* a document as loaded, before its scripts ran
NewPage ==
  [ submitBtn |-> "enabled", goals |-> "initial", transactions |-> "initial",
    logs |-> "initial", logsData |-> Logs(0, ""), currentFilters |-> "",
    form |-> NewForm,
    ready |-> FALSE, redirect |-> "" ]

\* the document at url is loaded and its module's init runs
loadDocument(p, url) ==
  LET p1 == [p EXCEPT !.location = url, !.api = NewApi, !.requests = <<>>,
                      !.page = NewPage]
  IN  IF url = "dashboard.html" THEN loadDashboard(p1, "init")
      ELSE IF url = "admin_panel.html" THEN loadLogs(p1, "", "init")
      ELSE p1

----------------------------------------------------------------------------
(* Initial state: the page after ai_chat.js init()                         *)

Envs ==
  { e \in [supported : BOOLEAN, synthesis : BOOLEAN, dashboard : BOOLEAN,
           micWired : BOOLEAN] : e.micWired => e.supported }

\* reply and exec are the states of the promises of api.sendAIMessage and
\* api.executeAIAction: "none", "pending", "rejected", or fulfilled
\* ("fulfilled", and result.success for exec)
NewTurn == [pc |-> "none", typingId |-> 0, reply |-> "none",
            response |-> NoResponse, exec |-> "none"]

NoModal == [dom |-> "none", promise |-> "none"]

InitChat(e) ==
  /\ env = e
  /\ inputValue = <<>>
  /\ container = << Element(0, "message-assistant", WelcomeText) >>
  /\ now = 0
  /\ nturns = 0
  /\ turns = [t \in Turns |-> NewTurn]
  /\ log = [t \in Turns |-> <<>>]
  /\ modal = [t \in Turns |-> NoModal]
  /\ recognition = IF e.micWired THEN "object" ELSE "null"
  /\ recState = "inactive"
  /\ isListening = FALSE
  /\ handlers = "none"
  /\ isSpeechEnabled = TRUE
  /\ utterances = <<>>
  /\ micClasses = {}


\* no pure function is being called
NoCall == [fn |-> "none"]

\* the delays debounce is given
MaxWait == 2

\* debounce(func, wait): `timeout` is undefined, no timer is pending and
\* neither the returned function nor func has been called
debounce(wait) ==
  [ wait |-> wait, timeout |-> 0, timers |-> {}, clock |-> 0,
    calls |-> <<>>, invocations |-> <<>> ]

InitPage(e) ==
  /\ InitChat(e)
  /\ lastEvent = Event("task", <<>>)
  /\ storage = NoStorage
  /\ api = NewApi
  /\ location = IF e.dashboard THEN "dashboard.html" ELSE "index.html"
  /\ requests = <<>>
  /\ page = NewPage
  /\ call = NoCall
  /\ returned = NoCall
  /\ debounced = debounce(MaxWait)

\* a browser without speech recognition: the microphone button is disabled
Init == \E e \in Envs : ~e.supported /\ InitPage(e)

----------------------------------------------------------------------------
(* Tasks                                                                    *)

\* what Date.now() may return next
Clock == { now, now + 1 } \ { 0 }

\* a further activation of handleSendMessage fits the bound
CanSend(text, bound) == Trim(text) = <<>> \/ nturns < bound

\* sendButton click (line 34), or messageInput keypress (lines 36-41) of
\* Enter without Shift, with v in the input field
SendSubmit(v, bound) ==
  /\ CanSend(v, bound)
  /\ \E d \in Clock :
       Commit(handleSendMessage(
                [BeginWith(St, "send", v) EXCEPT !.inputValue = v], d))

\* api.sendAIMessage resolved
ReplyResolves(t, response) ==
  /\ turns[t].pc = "awaitReply"
  /\ Commit(handleSendMessageReply(Begin(St, "task"), t, response))

\* api.sendAIMessage rejected
ReplyRejects(t) ==
  /\ turns[t].pc = "awaitReply"
  /\ Commit(handleSendMessageError(Begin(St, "task"), t))

\* api.sendAIMessage resolved with `response`, and a call made after the
\* reply text was appended throws
ReplyResolvesThenThrows(t, response, at) ==
  /\ turns[t].pc = "awaitReply"
  /\ at = "speak" => isSpeechEnabled /\ env.synthesis
  /\ at = "showConfirmModal" => response.suggested_action.present
  /\ Commit(handleSendMessageReplyThrows(Begin(St, "task"), t, response, at))

\* a click listener of the modal (ui.js lines 67-83), then the continuation
\* of handleSuggestedAction when the click settled the promise
modalClick(s, t, v) ==
  LET s1 == closeModal(s, t)
      s2 == resolve(s1, t, v)
  IN  IF s.modal[t].promise = "pending" /\ s2.modal[t].promise # "pending"
      THEN handleSuggestedActionConfirmed(s2, t, s2.modal[t].promise)
      ELSE s2

InDom(t) == modal[t].dom \in { "open", "closing" }

\* click on the confirm button
ModalConfirmClick(t) ==
  /\ InDom(t)
  /\ Commit(modalClick(Begin(St, "modalClick"), t, "true"))

\* click on the cancel button or on the overlay
ModalDeclineClick(t) ==
  /\ InDom(t)
  /\ Commit(modalClick(Begin(St, "modalClick"), t, "false"))

\* closeModal's timer: modal.remove()
ModalRemoveTimer(t) ==
  /\ modal[t].dom = "closing"
  /\ Commit([Begin(St, "task") EXCEPT !.modal[t].dom = "removed"])

\* api.executeAIAction resolved with result.success = v
ExecResolves(t, v) ==
  /\ turns[t].pc = "awaitExec"
  /\ Commit(handleSuggestedActionResult(Begin(St, "task"), t, v))

\* api.executeAIAction rejected
ExecRejects(t) ==
  /\ turns[t].pc = "awaitExec"
  /\ Commit(handleSuggestedActionError(Begin(St, "task"), t))

\* voiceToggle change (lines 53-57)
VoiceToggleChange(checked) ==
  /\ checked \in BOOLEAN
  /\ Commit(setSpeechEnabled(Begin(St, "task"), checked))

\* the utterance being spoken ends
UtteranceEnd ==
  /\ utterances # <<>>
  /\ Commit([Begin(St, "task") EXCEPT !.utterances = Tail(@)])

\* speech.speak called by another caller
ApiSpeak(text) ==
  /\ text \in SpeakTexts
  /\ Commit(speak(BeginWith(St, "speak", text), text))

\* micButton click (line 49)
MicClick ==
  /\ env.micWired
  /\ Commit(handleMicClick(Begin(St, "micClick")))

\* speech.startListening called by another caller with its own callbacks
ApiStartListening ==
  /\ handlers \in { "none", "mic", "api" }
  /\ Commit(startListening(Begin(St, "startListening"), "api"))

\* speech.stopListening called by another caller
ApiStopListening ==
  /\ handlers \in { "none", "mic", "api" }
  /\ Commit(stopListening(Begin(St, "stopListening")))

\* the session delivers its final transcript: recognition.onresult
RecognitionResult(transcript, bound) ==
  /\ recState \in { "running", "stopping" }
  /\ handlers # "mic" \/ CanSend(transcript, bound)
  /\ \E d \in Clock :
       Commit(recognitionOnResult(
                [BeginWith(St, "result", transcript) EXCEPT
                   !.recState = "ending"],
                transcript, d))

\* the session reports an error: recognition.onerror
RecognitionError ==
  /\ recState \in { "running", "stopping" }
  /\ Commit(recognitionOnError(
              [Begin(St, "error") EXCEPT !.recState = "ending"]))

\* the session ends: recognition.onend
RecognitionEnd ==
  /\ recState # "inactive"
  /\ Commit(recognitionOnEnd(
              [Begin(St, "end") EXCEPT !.recState = "inactive"]))

ChatTasks(bound) ==
  \/ \E v \in Inputs : SendSubmit(v, bound)
  \/ \E t \in Turns, r \in Responses : ReplyResolves(t, r)
  \/ \E t \in Turns : ReplyRejects(t)
  \/ \E t \in Turns : ModalConfirmClick(t)
  \/ \E t \in Turns : ModalDeclineClick(t)
  \/ \E t \in Turns : ModalRemoveTimer(t)
  \/ \E t \in Turns, v \in ExecResults : ExecResolves(t, v)
  \/ \E t \in Turns : ExecRejects(t)
  \/ \E c \in BOOLEAN : VoiceToggleChange(c)
  \/ UtteranceEnd
  \/ \E x \in SpeakTexts : ApiSpeak(x)

\* the microphone button and the events of the recognition session
MicTasks ==
  \/ MicClick
  \/ \E x \in Inputs : RecognitionResult(x, MaxVoiceTurns)
  \/ RecognitionError
  \/ RecognitionEnd

VoiceTasks ==
  \/ MicTasks
  \/ ApiStartListening
  \/ ApiStopListening

Next == ChatTasks(MaxTurns)

Spec == Init /\ [][Next]_vars

\* any page, with or without speech recognition
InitVoice == \E e \in Envs : InitPage(e)

NextVoice == ChatTasks(MaxVoiceTurns) \/ VoiceTasks

SpecVoice == InitVoice /\ [][NextVoice]_vars

\* the chat, with calls of the reply's try block that may throw
NextThrows ==
  \/ ChatTasks(MaxVoiceTurns)
  \/ \E t \in Turns, r \in Responses, at \in { "speak", "showConfirmModal" } :
       ReplyResolvesThenThrows(t, r, at)

SpecThrows == Init /\ [][NextThrows]_vars

\* the chat page alone uses the voice adapter
NextMic == ChatTasks(MaxVoiceTurns) \/ MicTasks

SpecMic == InitVoice /\ [][NextMic]_vars

----------------------------------------------------------------------------
(* Tasks of the documents                                                  *)

\* the chat of the page is idle
IdleEnv ==
  [supported |-> FALSE, synthesis |-> FALSE, dashboard |-> FALSE,
   micWired |-> FALSE]

BeginPg(p, op, owner) == [p EXCEPT !.lastEvent = Event(op, << owner >>)]

\* request i has settled: the code awaiting it resumes; a controller's
\* promise is then garbage, a caller of the client keeps its own
completed(p, i) ==
  LET p1 == Resume(p, i)
  IN  IF p.requests[i].owner = "caller"
      THEN p1
      ELSE [p1 EXCEPT !.requests = RemoveAt(@, i)]

IsPending(i) == requests[i].status = "pending"

\* api.setMockMode
SetMockMode(useMock) ==
  /\ useMock # api.useMock
  /\ CommitPg(setMockMode(BeginPg(Pg, "setMockMode", ""), useMock))

\* the timer of a mock request fires; timers of equal delay fire in the
\* order they were set
MockTimerFires(i) ==
  /\ requests[i].mock
  /\ IsPending(i)
  /\ \A j \in 1..(i - 1) : ~(requests[j].mock /\ IsPending(j))
  /\ LET p1 == mockTimer(Pg, i)
         p2 == BeginPg(p1, p1.requests[i].status, requests[i].owner)
     IN  CommitPg(IF p2.requests[i].status = "stuck" THEN p2 ELSE completed(p2, i))

\* what a server may answer to a request
LiveResponses(r) ==
  IF r.owner = "handleLogin"
  THEN { [Value("login") EXCEPT !.user_id = u, !.access_token = Token(u),
                                !.user = IF withUser THEN User(u) ELSE NoUser] :
           u \in UserIds, withUser \in BOOLEAN }
  ELSE IF r.owner = "handleRegister"
  THEN { [Value("register") EXCEPT !.user_id = u, !.access_token = Token(u)] :
           u \in UserIds }
  ELSE IF r.owner \in { "loadGoals", "loadTransactions", "loadLogs" }
  THEN { [Value("list") EXCEPT !.n = n] : n \in { 0, 2 } }
  ELSE { Value("json") }

\* fetch resolved with an ok response whose body parsed to v
FetchResolves(i, v) ==
  /\ ~requests[i].mock
  /\ IsPending(i)
  /\ v \in LiveResponses(requests[i])
  /\ CommitPg(completed(settle(BeginPg(Pg, "fulfilled", requests[i].owner),
                               i, "fulfilled", v), i))

\* fetch rejected, the response was not ok, or its body did not parse
FetchFails(i) ==
  /\ ~requests[i].mock
  /\ IsPending(i)
  /\ CommitPg(completed(settle(BeginPg(Pg, "rejected", requests[i].owner),
                               i, "rejected", NoValue), i))

Settles ==
  \/ \E i \in DOMAIN requests : MockTimerFires(i)
  \/ \E i \in DOMAIN requests, v \in UNION { LiveResponses(requests[j]) :
                                              j \in DOMAIN requests } :
       FetchResolves(i, v)
  \/ \E i \in DOMAIN requests : FetchFails(i)

\* paths and bodies other callers of the client pass
ApiPaths ==
  { <<"/auth", "/login">>, <<"/auth", "/register">>, <<"/ai", "/message">>,
    <<"/ai", "/execute">>, <<"/users", "/1", "/goals">>,
    <<"/users", "/1", "/transactions">>, <<"/admin", "/logs">>,
    <<"/admin", "/logs", "/goals">>, <<"/other">> }

ApiBodies == { NoBody, Body(Null), Body(<<"hi">>) }

\* api.get called by another caller
ApiGet(path, bound) ==
  /\ Len(requests) < bound
  /\ CommitPg(get(BeginPg(Pg, "get", "caller"), path, "caller", NoCtx))

\* api.post called by another caller
ApiPost(path, body, bound) ==
  /\ Len(requests) < bound
  /\ CommitPg(post(BeginPg(Pg, "post", "caller"), path, body, "caller", NoCtx))

\* the login form is submitted
SubmitLogin(bound) ==
  /\ location = "login.html"
  /\ page.submitBtn = "enabled"
  /\ Len(requests) < bound
  /\ CommitPg(handleLogin(BeginPg(Pg, "handleLogin", "")))

\* the register form is submitted, its two passwords equal or not
SubmitRegister(password, confirmPassword, bound) ==
  /\ location = "register.html"
  /\ page.submitBtn = "enabled"
  /\ Len(requests) < bound
  /\ CommitPg(handleRegister(BeginPg(Pg, "handleRegister", ""),
                             password, confirmPassword))

\* auth.logout, from any page
Logout ==
  /\ location \in Pages
  /\ CommitPg(logout(BeginPg(Pg, "logout", "")))

\* the dashboard-refresh event, or dashboard.refresh()
DashboardRefresh(bound) ==
  /\ location = "dashboard.html"
  /\ Len(requests) < bound
  /\ CommitPg(loadDashboard(BeginPg(Pg, "refresh", ""), "refresh"))

\* values the user fills the create-goal form with
GoalForms ==
  { [goal_title |-> t, target_amount |-> a, deadline |-> <<"2", "0", "3", "0">>] :
      t \in { <<>>, <<"a">> },
      a \in { <<"5">>, <<"1", "0", "0", "0">> } }

fill(form, values) ==
  [form EXCEPT !.inputs = [f \in DOMAIN @ |-> [@[f] EXCEPT !.value = values[f]]]]

\* goals the mock data may grow to
MaxGoals == 4

\* the create-goal form is submitted with `values` in its inputs
SubmitCreateGoal(values, bound) ==
  /\ location = "dashboard.html"
  /\ api.goals < MaxGoals
  /\ page.ready
  /\ page.submitBtn = "enabled"
  /\ Len(requests) < bound
  /\ CommitPg(handleCreateGoal(
                [BeginPg(Pg, "handleCreateGoal", "") EXCEPT
                   !.page.form = fill(@, values)]))

LogFilters == { "", "status=failed" }

\* the filter form of the admin panel is submitted
FilterSubmit(filters, bound) ==
  /\ location = "admin_panel.html"
  /\ page.ready
  /\ Len(requests) < bound
  /\ CommitPg(handleFilterSubmit(BeginPg(Pg, "handleFilterSubmit", ""), filters))

\* the clear-filters button is clicked
ClearFilters(bound) ==
  /\ location = "admin_panel.html"
  /\ page.ready
  /\ Len(requests) < bound
  /\ CommitPg(handleClearFilters(BeginPg(Pg, "handleClearFilters", "")))

\* the document is left for page.redirect
Navigate ==
  /\ page.redirect # ""
  /\ CommitPg(loadDocument(BeginPg(Pg, "load", ""), page.redirect))

\* the user opens another page of the site
Visit(url) ==
  /\ url # location
  /\ CommitPg(loadDocument(BeginPg(Pg, "load", ""), url))

\* the chat does nothing, the document at url is being loaded
InitDocument(store, url) ==
  /\ InitChat(IdleEnv)
  /\ LET p == loadDocument([ storage |-> store, api |-> NewApi,
                             location |-> url, requests |-> <<>>,
                             page |-> NewPage,
                             lastEvent |-> Event("load", <<"">>) ], url)
     IN
       /\ storage = p.storage
       /\ api = p.api
       /\ location = p.location
       /\ requests = p.requests
       /\ page = p.page
       /\ lastEvent = p.lastEvent
  /\ call = NoCall
  /\ returned = NoCall
  /\ debounced = debounce(MaxWait)

\* sessions found in the store when the client is called
ApiStorages ==
  { [NoStorage EXCEPT !.access_token = t] : t \in { Null, <<"">>, << Token(1) >> } }

MaxApiCalls == 1

InitApi == \E store \in ApiStorages : InitDocument(store, "index.html")

NextApi ==
  \/ \E b \in BOOLEAN : SetMockMode(b)
  \/ \E path \in ApiPaths : ApiGet(path, MaxApiCalls)
  \/ \E path \in ApiPaths, body \in ApiBodies : ApiPost(path, body, MaxApiCalls)
  \/ Settles

SpecApi == InitApi /\ [][NextApi]_vars

\* requests a document has in flight
MaxRequests == 2

Passwords == { "pw", "pw2" }

InitPages == \E url \in Pages : InitDocument(NoStorage, url)

NextPages ==
  \/ \E b \in BOOLEAN : SetMockMode(b)
  \/ SubmitLogin(MaxRequests)
  \/ \E pw \in Passwords, cpw \in Passwords : SubmitRegister(pw, cpw, MaxRequests)
  \/ Logout
  \/ DashboardRefresh(MaxRequests)
  \/ \E values \in GoalForms : SubmitCreateGoal(values, MaxRequests)
  \/ \E f \in LogFilters : FilterSubmit(f, MaxRequests)
  \/ ClearFilters(MaxRequests)
  \/ Navigate
  \/ \E url \in Pages : Visit(url)
  \/ Settles

SpecPages == InitPages /\ [][NextPages]_vars

\* The functions of validator.js and the progress of a goal, called with
\* arguments from bounded sets.
MaxLen == 3

Alphabet == { "1", "5", ".", "-", " ", "a" }

Strings == UNION { [1..k -> Alphabet] : k \in 0..MaxLen }

Limits == { <<>>, << 1 >>, << 5 >> }

FormFields == { "goal_title", "target_amount" }

Parents == FormFields \cup { "group" }

FieldValues == { <<>>, <<"0">>, <<"5">> }

InputElements(f) ==
  { [value |-> v, error |-> e, parent |-> g] :
      v \in FieldValues, e \in BOOLEAN, g \in { f, "group" } }

\* the form has some of the fields; an input and a parent may bear the
\* annotation of an earlier validation
Forms ==
  UNION { { [inputs |-> i, errors |-> e] :
              i \in { x \in [present -> UNION { InputElements(f) : f \in FormFields }] :
                        \A f \in present : x[f] \in InputElements(f) },
              e \in [Parents -> { <<>>, << "stale" >> }] } :
          present \in SUBSET FormFields }

TitleRule == << "goal_title", << Required("title") >> >>

AmountRule == << "target_amount", << Required("amount"), InRange(<< 1 >>, <<>>) >> >>

RuleSets == { << TitleRule, AmountRule >>, << AmountRule, TitleRule >> }

Amounts == { 0 - 1000, 0 - 1, 0, 1, 2, 3, 500, 1000, 2000 }

Goals == { [current_amount |-> c, target_amount |-> t] : c \in Amounts, t \in Amounts }

Calls ==
  { [fn |-> "validateNumber", value |-> v, min |-> min, max |-> max] :
      v \in Strings, min \in Limits, max \in Limits }
  \cup { [fn |-> "validateForm", form |-> f, rules |-> r] :
           f \in Forms, r \in RuleSets }
  \cup { [fn |-> "renderGoalCard", goal |-> g] : g \in Goals }
  \cup { [fn |-> "calculatePercentage", current |-> g.current_amount,
           total |-> g.target_amount] : g \in Goals }

Return(fn, result) ==
  /\ call.fn = fn
  /\ returned = NoCall
  /\ returned' = [fn |-> fn, result |-> result]
  /\ UNCHANGED <<chatVars, lastEvent, sessionVars, call, debounced>>

CallValidateNumber ==
  /\ call.fn = "validateNumber"
  /\ Return("validateNumber", validateNumber(call.value, call.min, call.max))

CallValidateForm ==
  /\ call.fn = "validateForm"
  /\ Return("validateForm", validateForm(call.form, call.rules))

CallRenderGoalCard ==
  /\ call.fn = "renderGoalCard"
  /\ Return("renderGoalCard", progress(call.goal))

CallCalculatePercentage ==
  /\ call.fn = "calculatePercentage"
  /\ Return("calculatePercentage", calculatePercentage(call.current, call.total))

InitCalls ==
  /\ InitChat(IdleEnv)
  /\ lastEvent = Event("task", <<>>)
  /\ storage = NoStorage
  /\ api = NewApi
  /\ location = "index.html"
  /\ requests = <<>>
  /\ page = NewPage
  /\ call \in Calls
  /\ returned = NoCall
  /\ debounced = debounce(MaxWait)

NextCalls ==
  \/ CallValidateNumber
  \/ CallValidateForm
  \/ CallRenderGoalCard
  \/ CallCalculatePercentage

SpecCalls == InitCalls /\ [][NextCalls]_vars

----------------------------------------------------------------------------
(* debounce (auth.js): the function it returns, the timers it sets and the
   clock. Time is counted in ticks; a timer fires at the tick it is due,
   before anything else that happens at that tick.                          *)

MaxTime == 6
MaxCalls == 3

\* what the debounced function is called with
Arguments == { "a", "b" }

\* clearTimeout(id): the timer with this id, if it is pending, is cancelled
clearTimeout(d, id) == [d EXCEPT !.timers = { t \in @ : t.id # id }]

\* setTimeout(later, wait) in a call made with args: the id it returns
\* numbers the timers from 1
setTimeout(d, args) ==
  LET id == Len(d.calls) + 1
  IN [d EXCEPT !.timers = @ \cup { [ id |-> id, due |-> d.clock + d.wait,
                                      args |-> args ] },
               !.timeout = id]

\* the mutation: the pending timer is not cancelled
executedFunctionKeepsTimer(d, args) ==
  [ setTimeout(d, args) EXCEPT
      !.calls = Append(@, [at |-> d.clock, args |-> args]) ]

\* executedFunction(...args)
executedFunction(d, args) ==
  [ setTimeout(clearTimeout(d, d.timeout), args) EXCEPT
      !.calls = Append(@, [at |-> d.clock, args |-> args]) ]

\* func(...args)
func(d, args) ==
  [d EXCEPT !.invocations = Append(@, [at |-> d.clock, args |-> args])]

\* later(), the callback of the timer t
later(d, t) ==
  func(clearTimeout([d EXCEPT !.timers = @ \ {t}], d.timeout), t.args)

\* the timers that are due
Due(d) == { t \in d.timers : t.due <= d.clock }

\* the debounced function is called
DebouncedCall(args) ==
  /\ Len(debounced.calls) < MaxCalls
  /\ Due(debounced) = {}
  /\ debounced' = executedFunction(debounced, args)
  /\ UNCHANGED <<chatVars, lastEvent, sessionVars, call, returned>>

\* a timer is due: its callback runs
TimerFires ==
  /\ \E t \in Due(debounced) :
       /\ \A u \in Due(debounced) : t.id <= u.id
       /\ debounced' = later(debounced, t)
  /\ UNCHANGED <<chatVars, lastEvent, sessionVars, call, returned>>

\* time passes
Tick ==
  /\ debounced.clock < MaxTime
  /\ Due(debounced) = {}
  /\ debounced' = [debounced EXCEPT !.clock = @ + 1]
  /\ UNCHANGED <<chatVars, lastEvent, sessionVars, call, returned>>

InitDebounce ==
  /\ InitChat(IdleEnv)
  /\ lastEvent = Event("task", <<>>)
  /\ storage = NoStorage
  /\ api = NewApi
  /\ location = "index.html"
  /\ requests = <<>>
  /\ page = NewPage
  /\ call = NoCall
  /\ returned = NoCall
  /\ \E wait \in 1..MaxWait : debounced = debounce(wait)

NextDebounce ==
  \/ \E args \in Arguments : DebouncedCall(args)
  \/ TimerFires
  \/ Tick

SpecDebounce == InitDebounce /\ [][NextDebounce]_vars

----------------------------------------------------------------------------
(* Properties                                                               *)

Count(seq, name) ==
  Cardinality({ i \in 1..Len(seq) : seq[i][1] = name })

CountEvent(seq, e) == Cardinality({ i \in 1..Len(seq) : seq[i] = e })

\* where the first event `name` stands in seq, 0 if nowhere
IndexOf(seq, name) ==
  IF \E i \in 1..Len(seq) : seq[i][1] = name
  THEN CHOOSE i \in 1..Len(seq) :
         seq[i][1] = name /\ \A j \in 1..(i - 1) : seq[j][1] # name
  ELSE 0

\* the events after the first event `name`
After(seq, name) == SubSeq(seq, IndexOf(seq, name) + 1, Len(seq))

ExecCalls(t) == Count(log[t], "executeAIAction")

Settled(p) == p \in { "true", "false" }

InFlight == { t \in Turns : turns[t].pc = "awaitReply" }

IsBlank(x) == \A i \in 1..Len(x) : x[i] = " "

\* C1: the execute endpoint is called at most once per reply, and only when
\* the confirm dialog resolved true; a click on the dialog after it resolved
\* (while it is closing) neither changes the resolution nor executes again.
C1_ExecutedAtMostOnce ==
  /\ [](\A t \in Turns :
          /\ ExecCalls(t) <= 1
          /\ ExecCalls(t) = 1 => /\ modal[t].promise = "true"
                                 /\ Count(log[t], "showConfirmModal") = 1)
  /\ [][\A t \in Turns :
          Settled(modal[t].promise) =>
            /\ modal'[t].promise = modal[t].promise
            /\ ExecCalls(t)' = ExecCalls(t)]_vars

\* the action was executed and has settled, and then the closing dialog was
\* clicked again
C1_Witness ==
  /\ lastEvent.op = "modalClick"
  /\ nturns = 1
  /\ modal[1].dom = "closing"
  /\ turns[1].exec = "true"
  /\ ExecCalls(1) = 1

\* C2 as stated: the container never holds more than one typing indicator.
C2_AtMostOneIndicator == NumIndicators(container) <= 1

\* C2 amended: the container holds at most one typing indicator per chat
\* turn whose reply is still awaited.
C2_AtMostOneIndicatorPerTurnInFlight ==
  NumIndicators(container) <= Cardinality(InFlight)

\* two turns in flight, two indicators
C2_Witness ==
  /\ Cardinality(InFlight) = 2
  /\ NumIndicators(container) = 2

\* what handleSendMessage does before it awaits the reply
SendPrefix(t) ==
  LET m == log[t][1][3]
  IN  << <<"addMessage", "user", m>>,
         <<"showTypingIndicator", turns[t].typingId>>,
         <<"sendAIMessage", m>> >>

\* C3: submitting input that is empty or whitespace-only, by the send
\* button, the Enter key or a voice transcript, appends no message and no
\* typing indicator, calls no endpoint and starts no turn.
C3_BlankSubmitIsNoOp ==
  [][( /\ \/ lastEvent'.op = "send"
          \/ lastEvent'.op = "result" /\ handlers = "mic"
       /\ IsBlank(lastEvent'.text) )
     => UNCHANGED <<container, log, turns, nturns, modal, now>>]_vars

\* a whitespace-only voice transcript was submitted
C3_Witness ==
  /\ lastEvent = [op |-> "result", text |-> <<" ">>, cb |-> <<"onResult">>]
  /\ handlers = "mic"
  /\ inputValue = <<" ">>
  /\ nturns = 0

\* C4: when the reply request of a turn fails, the turn removes its typing
\* indicator, appends the apology exactly once as an assistant message,
\* has called the reply endpoint exactly once, and is finished.
C4_ReplyFailure ==
  /\ \A t \in Turns :
       turns[t].reply = "rejected" =>
         /\ turns[t].pc = "done"
         /\ log[t] = SendPrefix(t)
                     \o << <<"removeTypingIndicator", turns[t].typingId>>,
                           <<"addMessage", "assistant", ApologyText>> >>
  /\ NumIndicators(container) = Cardinality(InFlight)
  /\ Cardinality({ i \in 1..Len(container) :
                     container[i] = Element(0, "message-assistant", ApologyText) })
       = Cardinality({ t \in Turns : turns[t].reply = "rejected" })

\* a turn's request failed while another turn is still in flight
C4_Witness ==
  /\ turns[1].reply = "rejected"
  /\ turns[2].pc = "awaitReply"
  /\ NumIndicators(container) = 1

\* the steps of a turn after a successful reply, given whether speech
\* output was enabled when the reply arrived
ReplySteps(t, enabled) ==
  << <<"removeTypingIndicator", turns[t].typingId>>,
     <<"addMessage", "assistant", turns[t].response.text>> >>
  \o (IF enabled THEN << <<"speak", turns[t].response.text>> >> ELSE <<>>)
  \o (IF turns[t].response.suggested_action.present
      THEN << <<"showConfirmModal",
                OrElse(turns[t].response.suggested_action.title, DefaultTitle),
                OrElse(turns[t].response.suggested_action.description,
                       DefaultDescription)>> >>
      ELSE <<>>)

\* C5: a turn appends the user message, then the typing indicator, then
\* issues the request; when the reply arrives it removes the indicator,
\* appends the assistant text, speaks it if and only if speech output is
\* enabled, and only then presents the confirm dialog, if the reply carries
\* a suggested action; with no suggested action the turn is finished.
C5_TurnOrder ==
  /\ [](\A t \in Turns :
          turns[t].pc # "none" =>
            /\ Len(log[t]) >= 3
            /\ SubSeq(log[t], 1, 3) = SendPrefix(t)
            /\ Len(log[t]) = 3 <=> turns[t].pc = "awaitReply")
  /\ [][\A t \in Turns :
          (turns[t].pc = "awaitReply" /\ turns'[t].reply = "fulfilled") =>
            /\ log'[t] = log[t] \o ReplySteps(t, isSpeechEnabled)'
            /\ utterances' = IF isSpeechEnabled /\ env.synthesis
                             THEN << turns'[t].response.text >>
                             ELSE utterances
            /\ turns'[t].pc =
                 IF turns'[t].response.suggested_action.present
                 THEN "awaitConfirm" ELSE "done"
            /\ modal'[t].dom =
                 IF turns'[t].response.suggested_action.present
                 THEN "open" ELSE "none"]_vars

\* a reply with a suggested action arrived while speech output was enabled
C5_Witness ==
  /\ turns[1].pc = "awaitConfirm"
  /\ log[1] = SendPrefix(1) \o ReplySteps(1, TRUE)
  /\ Len(log[1]) = 7

AssistantMessages(t) ==
  { i \in 1..Len(log[t]) :
      log[t][i][1] = "addMessage" /\ log[t][i][2] = "assistant" }

NumContent(c, text) ==
  Cardinality({ i \in 1..Len(c) : c[i].content = text })

\* C6: when the user declines the suggested action of a turn, the execute
\* endpoint is not called, no toast is shown, no dashboard-refresh is
\* dispatched, and the turn has appended the assistant's reply text exactly
\* once and no further message.
C6_DeclineHasNoEffect ==
  /\ \A t \in Turns :
       modal[t].promise = "false" =>
         /\ turns[t].pc = "done"
         /\ turns[t].exec = "none"
         /\ ExecCalls(t) = 0
         /\ Count(log[t], "showToast") = 0
         /\ Count(log[t], "dispatchEvent") = 0
         /\ log[t][Len(log[t])][1] = "showConfirmModal"
         /\ \E i \in 1..Len(log[t]) :
              /\ AssistantMessages(t) = { i }
              /\ log[t][i][3] = turns[t].response.text
  /\ NumContent(container, ReplyText)
       = Cardinality({ t \in Turns : turns[t].reply = "fulfilled" })

\* the action of a turn was declined, the dialog has left the page and no
\* turn is running
C6_Witness ==
  /\ nturns = 1
  /\ modal[1] = [dom |-> "removed", promise |-> "false"]
  /\ NumContent(container, ReplyText) = 1
  /\ Len(container) = 3

\* C7: after a confirmed action, a result with success true produces a
\* success toast, then a confirmation message, then the dashboard-refresh
\* event if and only if the page is the dashboard; a reported failure or a
\* thrown error produces an error toast and then a failure message and no
\* dashboard-refresh; either way exactly one message is appended and the
\* turn is finished.
C7_ExecutionOutcome ==
  \A t \in Turns :
    /\ turns[t].exec = "true" =>
         /\ turns[t].pc = "done"
         /\ After(log[t], "executeAIAction") =
              << <<"showToast", "success">>,
                 <<"addMessage", "assistant", ExecOkText>> >>
              \o (IF env.dashboard
                  THEN << <<"dispatchEvent", "dashboard-refresh">> >>
                  ELSE <<>>)
    /\ turns[t].exec = "false" =>
         /\ turns[t].pc = "done"
         /\ After(log[t], "executeAIAction") =
              << <<"showToast", "error">>,
                 <<"addMessage", "assistant", ExecFailedText>> >>
    /\ turns[t].exec = "rejected" =>
         /\ turns[t].pc = "done"
         /\ After(log[t], "executeAIAction") =
              << <<"showToast", "error">>,
                 <<"addMessage", "assistant", ExecErrorText>> >>
    /\ turns[t].exec \in { "true", "false", "rejected" } =>
         Cardinality(AssistantMessages(t)) = 2

\* an action was executed with success away from the dashboard
C7_Witness ==
  /\ ~env.dashboard
  /\ turns[1].exec = "true"
  /\ Count(log[1], "dispatchEvent") = 0
  /\ container[Len(container)].content = ExecOkText

\* C8: however chat turns overlap, each turn appends exactly one user
\* message and one typing indicator, every turn awaiting its reply has its
\* indicator in the container, and once every reply request has settled
\* no typing indicator remains, also when two turns got the same id.
C8_OverlappingTurns ==
  /\ \A t \in Turns :
       turns[t].pc # "none" =>
         /\ CountEvent(log[t], <<"addMessage", "user", log[t][1][3]>>) = 1
         /\ Count(log[t], "showTypingIndicator") = 1
  /\ NumContent(container, <<"a">>)
       = Cardinality({ t \in Turns : turns[t].pc # "none" })
  /\ NumIndicators(container) = Cardinality(InFlight)
  /\ InFlight = {} => NumIndicators(container) = 0

\* two turns with the same indicator id overlapped and have both settled
C8_Witness ==
  /\ nturns = 2
  /\ InFlight = {}
  /\ turns[1].typingId = turns[2].typingId
  /\ container[2].className = "message-user"
  /\ container[3].className = "message-user"
  /\ NumIndicators(container) = 0

Invoked(name) == \E i \in 1..Len(lastEvent.cb) : lastEvent.cb[i] = name

\* the capability is absent: no recognition object and none can be made
Unavailable == recognition = "null" /\ ~env.supported

\* C9 as stated: startListening called while the adapter is already
\* Listening, or without the capability, invokes onError and leaves the
\* listening state and the session's handlers unchanged.
C9_StartListeningFailsByOnError ==
  [][(lastEvent'.op = "startListening" /\ (isListening \/ Unavailable))
     => /\ Invoked("onError")'
        /\ UNCHANGED <<isListening, handlers, recState>>]_vars

\* C9 amended: without the capability startListening invokes onError;
\* called while the adapter is already Listening it returns without
\* invoking a callback; both leave the listening state, the session and
\* its handlers unchanged.
C9_StartListeningGuards ==
  [][lastEvent'.op = "startListening" =>
       /\ Unavailable =>
            /\ lastEvent'.cb = <<"onError">>
            /\ UNCHANGED <<isListening, handlers, recState, recognition>>
       /\ isListening =>
            /\ lastEvent'.cb = <<>>
            /\ UNCHANGED <<isListening, handlers, recState, recognition>>]_vars

\* startListening was called by another caller while the microphone
\* button's session is listening
C9_Witness ==
  /\ lastEvent = [op |-> "startListening", text |-> <<>>, cb |-> <<>>]
  /\ isListening
  /\ handlers = "mic"
  /\ recState = "running"

\* a call of startListening that reaches recognition.start() and finds a
\* session that has not ended
StartFails ==
  /\ lastEvent'.op \in { "startListening", "micClick" }
  /\ ~isListening
  /\ ~Unavailable
  /\ recState # "inactive"

\* C10: a final transcript invokes onResult exactly once; a recognition
\* error or a failure to start invokes onError and leaves the adapter Idle;
\* the end of the session leaves the adapter Idle; the adapter is never
\* Listening when no session is active.
C10_SessionOutcomeReturnsToIdle ==
  /\ [](recState = "inactive" => ~isListening)
  /\ [][/\ lastEvent'.op = "result" =>
             /\ lastEvent'.cb = <<"onResult">>
             /\ recState' = "ending"
        /\ lastEvent'.op = "error" =>
             /\ Invoked("onError")'
             /\ ~isListening'
        /\ lastEvent'.op = "end" => ~isListening' /\ recState' = "inactive"
        /\ StartFails => Invoked("onError")' /\ ~isListening']_vars

\* the session of the microphone button delivered its transcript, which
\* was sent as a chat message; its end is due
C10_Witness ==
  /\ lastEvent = [op |-> "result", text |-> <<" ", "a", " ">>,
                  cb |-> <<"onResult">>]
  /\ handlers = "mic"
  /\ isListening
  /\ recState = "ending"
  /\ nturns = 1

\* a task that calls stopListening: a direct call, or a click on the
\* microphone button while the adapter is Listening
StopCalled ==
  \/ lastEvent'.op = "stopListening"
  \/ lastEvent'.op = "micClick" /\ isListening

\* C11 as stated: stopListening while Listening makes the adapter Idle and
\* cancels the session, so that a session on which stop was called delivers
\* no transcript to onResult and starts no chat turn; stopListening while
\* Idle changes nothing.
C11_StopCancelsSession ==
  [][/\ (StopCalled /\ isListening) =>
          /\ ~isListening'
          /\ recState' # "running"
     /\ (lastEvent'.op = "stopListening" /\ ~isListening) =>
          UNCHANGED <<isListening, recState, handlers, recognition,
                      micClasses, container, nturns>>
     /\ (recState = "stopping" /\ lastEvent'.op = "result") =>
          /\ ~Invoked("onResult")'
          /\ nturns' = nturns]_vars

SpeakCalls(t) == Count(log[t], "speak")

\* C12: at most one utterance is pending or audible at any time; a speak
\* call made while speech output is enabled, by a chat turn or by another
\* caller, leaves its own utterance as the only one, whatever was pending.
C12_LatestUtteranceOnly ==
  /\ [](Len(utterances) <= 1)
  /\ [][/\ \A t \in Turns :
            (SpeakCalls(t)' > SpeakCalls(t) /\ env.synthesis) =>
              utterances' = << turns'[t].response.text >>
        /\ (lastEvent'.op = "speak" /\ isSpeechEnabled /\ env.synthesis) =>
              utterances' = << lastEvent'.text >>]_vars

\* two overlapping turns have both spoken their replies, and a later speak
\* call of another caller holds the only utterance
C12_Witness ==
  /\ lastEvent.op = "speak"
  /\ utterances = << <<"hello">> >>
  /\ nturns = 2
  /\ container[2].className = "message-user"
  /\ container[3].className = "message-user"
  /\ SpeakCalls(1) = 1
  /\ SpeakCalls(2) = 1

\* C13: disabling speech output cancels the utterance in progress at once;
\* while it is disabled no utterance is pending or audible, a speak call
\* starts none, and a chat reply that arrives is appended and not spoken.
C13_DisabledIsSilent ==
  /\ [](~isSpeechEnabled => utterances = <<>>)
  /\ [][/\ (lastEvent'.op = "speak" /\ ~isSpeechEnabled) =>
            /\ utterances' = <<>>
            /\ ~isSpeechEnabled'
        /\ \A t \in Turns :
            (/\ turns[t].pc = "awaitReply"
             /\ turns'[t].reply = "fulfilled"
             /\ ~isSpeechEnabled) =>
              /\ SpeakCalls(t)' = 0
              /\ utterances' = <<>>
              /\ Len(container') = Len(container)
              /\ container'[Len(container')] =
                   Element(0, "message-assistant", turns'[t].response.text)]_vars

\* with speech output disabled a reply was appended unspoken, and a later
\* speak call of another caller started no utterance
C13_Witness ==
  /\ lastEvent.op = "speak"
  /\ ~isSpeechEnabled
  /\ env.synthesis
  /\ utterances = <<>>
  /\ turns[1].reply = "fulfilled"
  /\ SpeakCalls(1) = 0
  /\ NumContent(container, ReplyText) = 1

LiveRequests == { i \in DOMAIN requests : ~requests[i].mock }

MockRequests == { i \in DOMAIN requests : requests[i].mock }

\* C14 as stated: a live request carries the header Authorization with
\* 'Bearer <token>' when a token is stored, and no header Authorization
\* when none is.
C14_BearerOrNoHeader ==
  \A i \in LiveRequests :
    IF storage.access_token # Null
    THEN /\ "Authorization" \in DOMAIN requests[i].headers
         /\ requests[i].headers["Authorization"]
              = "Bearer " \o storage.access_token[1]
    ELSE "Authorization" \notin DOMAIN requests[i].headers

\* C14 amended: every live GET and POST request carries the header
\* Authorization: its value is 'Bearer <token>' when a non-empty token is
\* stored, and the empty string when no token or an empty one is stored.
C14_BearerOrEmptyHeader ==
  \A i \in LiveRequests :
    /\ requests[i].method \in { "GET", "POST" }
    /\ DOMAIN requests[i].headers = { "Content-Type", "Authorization" }
    /\ requests[i].headers["Authorization"] =
         IF storage.access_token \in { Null, <<"">> }
         THEN ""
         ELSE "Bearer " \o storage.access_token[1]

\* a live POST request was sent, and answered, while no token was stored
C14_Witness ==
  \E i \in LiveRequests :
    /\ requests[i].method = "POST"
    /\ requests[i].status = "fulfilled"
    /\ storage.access_token = Null
    /\ requests[i].headers["Authorization"] = ""

\* the fixture of a mock request: that of the first key, in the order of
\* the code's tests, which is part of the path
FixtureKeys(method) ==
  IF method = "GET"
  THEN << <<"goals", <<"/goals">> >>,
          <<"transactions", <<"/transactions">> >>,
          <<"logs", <<"/admin", "/logs">> >> >>
  ELSE << <<"login", <<"/auth", "/login">> >>,
          <<"register", <<"/auth", "/register">> >>,
          <<"ai-response", <<"/ai", "/message">> >>,
          <<"executed", <<"/ai", "/execute">> >>,
          <<"goal", <<"/goals">> >> >>

Fixture(method, path) ==
  LET keys == FixtureKeys(method)
      hits == { k \in DOMAIN keys : Includes(path, keys[k][2]) }
  IN  IF hits = {}
      THEN IF method = "GET" THEN "mock-get" ELSE "mock-post"
      ELSE keys[CHOOSE k \in hits : \A h \in hits : k <= h][1]

\* C15 as stated: in simulated mode every call of get and post, whatever
\* the path and the body, is a promise behind a timer of 500 units that
\* is pending until the timer fires and then fulfilled, never rejected and
\* never left pending, with the fixture of the first matching key of the
\* path, or with the generic response when no key matches.
C15_MockAlwaysResolves ==
  \A i \in MockRequests :
    /\ requests[i].delay = MockDelay
    /\ requests[i].status \in { "pending", "fulfilled" }
    /\ requests[i].status = "fulfilled" =>
         requests[i].value.kind = Fixture(requests[i].method, requests[i].path)

Fulfils(owner) ==
  /\ lastEvent'.op = "fulfilled"
  /\ lastEvent'.text = << owner >>

Rejects(owner) ==
  /\ lastEvent'.op = "rejected"
  /\ lastEvent'.text = << owner >>

SessionTokens == { << Token(u) >> : u \in UserIds } \cup { << MockToken >> }

\* C16: the stored session changes only when a login or a register
\* succeeds, which store the token and the user id together, and at logout,
\* which removes the three values together; a failed login or register and
\* a register with passwords that differ change none of them; after logout
\* isLoggedIn() is false and getCurrentUserId() and getCurrentUser() are
\* null.
C16_SessionChanges ==
  [][/\ storage' # storage =>
          \/ Fulfils("handleLogin")
          \/ Fulfils("handleRegister")
          \/ lastEvent'.op = "logout"
     /\ (Fulfils("handleLogin") \/ Fulfils("handleRegister")) =>
          /\ storage'.access_token \in SessionTokens
          /\ \E u \in UserIds : storage'.user_id = << ToString(u) >>
     /\ Fulfils("handleRegister") => storage'.user_data = storage.user_data
     /\ (Rejects("handleLogin") \/ Rejects("handleRegister")) =>
          storage' = storage
     /\ (lastEvent'.op = "handleRegister" /\ requests' = requests) =>
          /\ storage' = storage
          /\ Invoked("showToast-error")'
     /\ lastEvent'.op = "logout" =>
          /\ storage' = NoStorage
          /\ ~isLoggedIn(Pg)'
          /\ getCurrentUserId(Pg)' = Null
          /\ getCurrentUser(Pg)' = Null]_vars

\* a user logged in, with a profile, went on to the dashboard and logged
\* out there
C16_Witness ==
  /\ lastEvent.op = "logout"
  /\ location = "dashboard.html"
  /\ page.goals = "cards"
  /\ storage = NoStorage
  /\ page.redirect = "index.html"

\* the feedback of a task: a toast, or an inline message in a container
ErrorToast == Invoked("showToast-error")

InlineError ==
  \/ page.goals = "error"
  \/ page.transactions = "error"
  \/ page.logs = "error"

\* C17 as stated: when the request of a login, a register, a load of the
\* goals, of the transactions or of the admin logs, or a goal creation
\* fails, the controller shows a toast or an inline message and is
\* interactive again: its submit button is enabled, its container shows no
\* spinner.
C17_FailureGivesFeedback ==
  [][/\ \A owner \in { "handleLogin", "handleRegister", "handleCreateGoal" } :
          Rejects(owner) =>
            /\ ErrorToast'
            /\ page'.submitBtn = "enabled"
     /\ Rejects("loadGoals") =>
          /\ ErrorToast' \/ page'.goals = "error"
          /\ page'.goals # "loading"
     /\ Rejects("loadTransactions") =>
          ErrorToast' \/ page'.transactions = "error"
     /\ Rejects("loadLogs") =>
          /\ ErrorToast' \/ page'.logs = "error"
          /\ page'.logs # "loading"]_vars

\* the number a string denotes when, after leading white space, the whole
\* of it is a decimal numeral (sign, digits, fraction); NaN otherwise
Numeral(value) ==
  LET s == TrimStart(value)
      neg == s # <<>> /\ Head(s) = "-"
      body == IF neg THEN Tail(s) ELSE s
      ni == LeadingDigits(body)
      rest == SubSeq(body, ni + 1, Len(body))
      dot == rest # <<>> /\ Head(rest) = "."
      nf == IF dot THEN LeadingDigits(Tail(rest)) ELSE 0
      digits == SubSeq(body, 1, ni)
                \o (IF dot THEN SubSeq(rest, 2, nf + 1) ELSE <<>>)
      used == ni + (IF dot THEN 1 + nf ELSE 0)
  IN  IF ni + nf = 0 \/ used # Len(body)
      THEN NaN
      ELSE Number((IF neg THEN 0 - 1 ELSE 1) * DigitsValue(digits), Pow10(nf))


\* the lengths of the prefixes of x, after leading white space, that are
\* decimal numerals
NumeralPrefixes(x) ==
  LET s == TrimStart(x)
  IN  { k \in 1..Len(s) : ~Numeral(SubSeq(s, 1, k)).nan }

\* the number at the start of x: that of its longest numeral prefix
LeadingNumeral(x) ==
  LET s == TrimStart(x)
      ks == NumeralPrefixes(x)
  IN  IF ks = {}
      THEN NaN
      ELSE Numeral(SubSeq(s, 1, CHOOSE k \in ks : \A h \in ks : h <= k))

\* min <= x <= max for each bound that is present
WithinLimits(x, min, max) ==
  /\ min # <<>> => x.num >= min[1] * x.den
  /\ max # <<>> => x.num <= max[1] * x.den

PresentRules(form, rules) ==
  { j \in DOMAIN rules : rules[j][1] \in DOMAIN form.inputs }

\* the first validator of entry j that fails on the field's value, 0 when
\* none does
FirstFailing(form, rules, j) ==
  LET value == form.inputs[rules[j][1]].value
      failing == { k \in DOMAIN rules[j][2] :
                     ~RunValidator(rules[j][2][k], value).ok }
  IN  IF failing = {} THEN 0 ELSE CHOOSE k \in failing : \A h \in failing : k <= h

FailureMessage(form, rules, j) ==
  RunValidator(rules[j][2][FirstFailing(form, rules, j)],
               form.inputs[rules[j][1]].value).message

\* the validators validateForm is to invoke for entry j: those up to the
\* first failing one
ChainCalls(form, rules, j) ==
  LET k == FirstFailing(form, rules, j)
      n == IF k = 0 THEN Len(rules[j][2]) ELSE k
  IN  [i \in 1..n |-> << rules[j][1], i >>]

RECURSIVE AllChainCalls(_, _, _)
AllChainCalls(form, rules, j) ==
  IF j > Len(rules)
  THEN <<>>
  ELSE (IF j \in PresentRules(form, rules) THEN ChainCalls(form, rules, j) ELSE <<>>)
       \o AllChainCalls(form, rules, j + 1)

\* C18 as stated: validateForm(form, rules) runs every field's validator
\* chain in order, stops a field's chain at its first failing validator,
\* annotates every failing field (class and message), clears the annotation
\* of every passing field, and returns true if and only if every field
\* named in the rules passed all of its validators.
C18_ValidateForm ==
  returned.fn = "validateForm" =>
    LET form == call.form
        rules == call.rules
        r == returned.result
        present == PresentRules(form, rules)
    IN  /\ r.calls = AllChainCalls(form, rules, 1)
        /\ \A j \in present :
             LET f == rules[j][1]
                 g == form.inputs[f].parent
             IN  IF FirstFailing(form, rules, j) # 0
                 THEN /\ r.form.inputs[f].error
                      /\ r.form.errors[g] = << FailureMessage(form, rules, j) >>
                 ELSE /\ ~r.form.inputs[f].error
                      /\ r.form.errors[g] = <<>>
        /\ r.isValid <=>
             \A j \in DOMAIN rules :
               /\ j \in present
               /\ FirstFailing(form, rules, j) = 0

\* C18 amended: validateForm(form, rules) skips the fields named in the
\* rules that the form does not have; for the others, in the order of the
\* rules, it runs the field's validator chain in order and stops it at its
\* first failing validator, gives every failing field (not just the first)
\* the class error and removes it from every passing field; the parent
\* element of a field shows the message of the last field of the rules it
\* is the parent of, or no message when that field passed; it returns true
\* if and only if every field named in the rules that the form has passed
\* all of its validators.  Nothing else of the form changes.
C18_ValidateFormOfPresentFields ==
  returned.fn = "validateForm" =>
    LET form == call.form
        rules == call.rules
        r == returned.result
        present == PresentRules(form, rules)
    IN  /\ r.calls = AllChainCalls(form, rules, 1)
        /\ DOMAIN r.form.inputs = DOMAIN form.inputs
        /\ \A f \in DOMAIN form.inputs :
             /\ r.form.inputs[f].value = form.inputs[f].value
             /\ r.form.inputs[f].parent = form.inputs[f].parent
             /\ (\A j \in present : rules[j][1] # f) =>
                  r.form.inputs[f] = form.inputs[f]
        /\ \A j \in present :
             r.form.inputs[rules[j][1]].error = (FirstFailing(form, rules, j) # 0)
        /\ \A g \in DOMAIN form.errors :
             LET js == { j \in present : form.inputs[rules[j][1]].parent = g }
             IN  IF js = {}
                 THEN r.form.errors[g] = form.errors[g]
                 ELSE LET j == CHOOSE x \in js : \A y \in js : y <= x
                      IN  r.form.errors[g] =
                            IF FirstFailing(form, rules, j) = 0
                            THEN <<>>
                            ELSE << FailureMessage(form, rules, j) >>
        /\ r.isValid <=> \A j \in present : FirstFailing(form, rules, j) = 0

\* both fields fail, the second at the second validator of its chain, and
\* both are annotated
C18_Witness ==
  /\ returned.fn = "validateForm"
  /\ call.rules = << TitleRule, AmountRule >>
  /\ DOMAIN call.form.inputs = FormFields
  /\ returned.result.calls
       = << <<"goal_title", 1>>, <<"target_amount", 1>>, <<"target_amount", 2>> >>
  /\ ~returned.result.isValid
  /\ returned.result.form.errors["goal_title"] = << "title-required" >>
  /\ returned.result.form.errors["target_amount"] = << "below-min" >>

\* x <= y for the numbers Math.min returns; NaN compares with nothing
AtMost(x, y) ==
  /\ x.kind # "NaN"
  /\ y.kind # "NaN"
  /\ \/ x.kind = "Infinity" /\ x.n < 0
     \/ y.kind = "Infinity" /\ y.n > 0
     \/ x.kind = "finite" /\ y.kind = "finite" /\ x.n <= y.n

\* C20 as stated: the progress of a goal card is non-decreasing in
\* current_amount and lies in [0, 100] for all current and target amounts,
\* with progress(0, T) = 0, progress(T, T) = 100 and progress(2T, T) = 100.
C20_ProgressClamped ==
  returned.fn = "renderGoalCard" =>
    LET c == call.goal.current_amount
        t == call.goal.target_amount
        p == returned.result
    IN  /\ AtMost(Finite(0), p)
        /\ AtMost(p, Finite(100))
        /\ c = 0 => p = Finite(0)
        /\ c = t => p = Finite(100)
        /\ c = 2 * t => p = Finite(100)
        /\ \A c2 \in Amounts :
             c <= c2 => AtMost(p, progress([call.goal EXCEPT !.current_amount = c2]))

\* C21 as stated: after any sequence of logins, registers and logouts, a
\* stored user profile, when there is one, is that of the user whose id is
\* stored.
C21_ProfileBelongsToStoredUser ==
  getCurrentUser(Pg) # Null =>
    /\ getCurrentUserId(Pg) # Null
    /\ getCurrentUser(Pg)[1].id = getCurrentUserId(Pg)[1]

LogRequests == { i \in DOMAIN requests : requests[i].owner = "loadLogs" }

\* C22 as stated: in the admin panel, whenever no log request is in flight,
\* logsData and the logs table hold the answer to the request issued last,
\* the one made with currentFilters.
C22_LatestLogsShown ==
  (location = "admin_panel.html" /\ LogRequests = {}
     /\ page.logs \in { "table", "empty" }) =>
    page.logsData.query = page.currentFilters

MicListeningClasses == { "listening", "mic-active" }

\* C23 as stated: whenever no callback is running, the microphone button
\* bears the classes listening and mic-active if and only if the voice
\* adapter is Listening, after any sequence of mic clicks, transcripts,
\* recognition errors, failures to start and sessions ending without result.
C23_MicShowsListening ==
  env.micWired =>
    IF isListening
    THEN MicListeningClasses \subseteq micClasses
    ELSE MicListeningClasses \cap micClasses = {}

\* C24 as stated: a turn whose reply request has settled has appended
\* exactly one of the assistant's reply text and the apology, never both: a
\* failure after the reply text was appended (while speaking, or while
\* handling the suggested action) adds no apology.
C24_ReplyOrApology ==
  \A t \in Turns :
    turns[t].reply \in { "fulfilled", "rejected" } =>
      CountEvent(log[t], <<"addMessage", "assistant", ApologyText>>)
        + (IF turns[t].reply = "fulfilled"
           THEN CountEvent(log[t], <<"addMessage", "assistant",
                                     turns[t].response.text>>)
           ELSE 0)
        = 1

CreateRequests ==
  { i \in DOMAIN requests : requests[i].owner = "handleCreateGoal" }

\* the reloads of the goal list that handleCreateGoal awaits
ReloadRequests ==
  { i \in DOMAIN requests :
      requests[i].owner = "loadGoals" /\ requests[i].ctx.by = "handleCreateGoal" }

\* the submit task issues a create request exactly when the form is valid
CreateOnlyWhenValid ==
  lastEvent'.op = "handleCreateGoal" =>
    IF validateForm(page'.form, GoalRules).isValid
    THEN /\ Len(requests') = Len(requests) + 1
         /\ requests'[Len(requests')].owner = "handleCreateGoal"
         /\ requests'[Len(requests')].method = "POST"
         /\ page'.submitBtn = "disabled"
    ELSE /\ requests' = requests
         /\ page'.submitBtn = page.submitBtn

\* a failed create request: an error toast and no reload
NoReloadOnFailure ==
  Rejects("handleCreateGoal") =>
    /\ ErrorToast'
    /\ ReloadRequests' = ReloadRequests
    /\ page'.goals = page.goals

\* a reload is issued only by the task in which the create request succeeds
ReloadAfterCreate ==
  /\ Fulfils("handleCreateGoal") =>
       /\ Cardinality(ReloadRequests') = Cardinality(ReloadRequests) + 1
       /\ page'.goals = "loading"
  /\ Cardinality(ReloadRequests') > Cardinality(ReloadRequests) =>
       Fulfils("handleCreateGoal")

\* C25 as stated: the create-goal handler issues a create request only when
\* the validation of the form passed; the submit button is disabled while
\* the request is pending and enabled when it has settled, whether it
\* succeeded or failed; on success the goal list is reloaded, only after the
\* create request completed, and on failure no reload happens.
C25_CreateGoal ==
  /\ [](CreateRequests # {} => page.submitBtn = "disabled")
  /\ [][/\ CreateOnlyWhenValid
        /\ NoReloadOnFailure
        /\ ReloadAfterCreate
        /\ (Fulfils("handleCreateGoal") \/ Rejects("handleCreateGoal")) =>
             page'.submitBtn = "enabled"]_vars

\* C25 amended: the create-goal handler issues a create request only when
\* the validation of the form passed; the submit button is disabled from
\* the moment the request is issued; when the request fails the button is
\* enabled at once and no reload happens; when it succeeds the goal list is
\* reloaded, only after the create request completed, and the button stays
\* disabled until that reload has settled, and is enabled then.
C25_CreateGoalReloadsBeforeEnabling ==
  /\ []((CreateRequests # {} \/ ReloadRequests # {}) =>
          page.submitBtn = "disabled")
  /\ [][/\ CreateOnlyWhenValid
        /\ NoReloadOnFailure
        /\ ReloadAfterCreate
        /\ Rejects("handleCreateGoal") => page'.submitBtn = "enabled"
        /\ Fulfils("handleCreateGoal") => page'.submitBtn = "disabled"
        /\ (ReloadRequests # {} /\ ReloadRequests' = {}
             /\ lastEvent'.text = << "loadGoals" >>) =>
             page'.submitBtn = "enabled"]_vars

\* a goal was created on the simulated backend, the list was reloaded and
\* the button is enabled again
C25_Witness ==
  /\ location = "dashboard.html"
  /\ api.useMock
  /\ api.goals = 4
  /\ lastEvent.op = "fulfilled"
  /\ lastEvent.text = << "loadGoals" >>
  /\ requests = <<>>
  /\ page.goals = "cards"
  /\ page.submitBtn = "enabled"

\* the calls that end a burst: the last call made, and every call that
\* the next call follows by wait or more
BurstEnds ==
  { k \in 1..Len(debounced.calls) :
      \/ k = Len(debounced.calls)
      \/ debounced.calls[k + 1].at - debounced.calls[k].at >= debounced.wait }

\* the timer set by the k-th call is pending
Pending(k) == \E t \in debounced.timers : t.id = k

\* the invocation the burst ending with the k-th call results in
Invocation(k) ==
  [ at |-> debounced.calls[k].at + debounced.wait,
    args |-> debounced.calls[k].args ]

RECURSIVE Invocations(_)
\* the invocations of the bursts among the first k calls whose timer has run
Invocations(k) ==
  IF k = 0 THEN <<>>
  ELSE IF k \in BurstEnds /\ ~Pending(k)
       THEN Append(Invocations(k - 1), Invocation(k))
       ELSE Invocations(k - 1)

\* C26: every burst of calls of a debounced function, consecutive calls
\* less than wait apart, results in exactly one invocation of func, made wait
\* after the last call of the burst with that call's arguments, and func is
\* not invoked otherwise: the invocations made are those of the bursts that
\* ended, in order, and the only timer that may be pending is that of the
\* last call, not yet due for longer than the current tick
C26_DebounceInvokesOncePerBurst ==
  /\ debounced.invocations = Invocations(Len(debounced.calls))
  /\ \A t \in debounced.timers :
       /\ t.id = Len(debounced.calls)
       /\ t.due = debounced.calls[t.id].at + debounced.wait
       /\ t.due >= debounced.clock

\* two calls with different arguments less than wait apart were followed by
\* one invocation with the second call's arguments wait after it, and a
\* third call has begun another burst
C26_Witness ==
  /\ Len(debounced.calls) = 3
  /\ debounced.calls[2].at - debounced.calls[1].at < debounced.wait
  /\ debounced.calls[2].at > debounced.calls[1].at
  /\ debounced.calls[1].args # debounced.calls[2].args
  /\ debounced.invocations = << Invocation(2) >>
  /\ Pending(3)

====
